---- MODULE Spec2Model ----
(***************************************************************************)
(* A model of the lexer/parser front-end: the operator table, the          *)
(* precedence-climbing parser, the multi-character operator fusion pass    *)
(* and the delimiter resolver of parser.py, and the token buffer of        *)
(* lexer.py.                                                               *)
(***************************************************************************)
EXTENDS Integers, Sequences, FiniteSets, TLC

VARIABLES
    input,      \* parse: the token sequence handed to parse(seq)
    pc,         \* parse: the loop parse is in: "fuse", "scan", or "done"
    seq,        \* parse: the working sequence (local seq)
    index,      \* parse: the loop index of the running loop (0-based)
    stack,      \* parse: pending opening brackets, <<index, closer>> pairs
    result,     \* parse: the returned value, None while running
    stream,     \* TokenBuffer: self.stream, the tokenizer (its fields)
    buffer,     \* TokenBuffer: self.buffer, the cached tokens
    is_complete,\* TokenBuffer: self.is_complete, the seal
    source,     \* the tokenizer as the buffer was constructed with it
    call,       \* the last call on the buffer: its name, argument, outcome
                \* and the number of __next__ calls it made
    emitted,    \* TokenStream: the tokens its __next__ has returned so far
    RADIX_PT    \* lexer.py: the module setting RADIX_PT

pvars == <<input, pc, seq, index, stack, result>>
bvars == <<stream, buffer, is_complete, source, call>>
lvars == <<emitted, RADIX_PT>>
vars == <<input, pc, seq, index, stack, result,
          stream, buffer, is_complete, source, call, emitted, RADIX_PT>>

(***************************************************************************)
(* Values of the program.                                                  *)
(***************************************************************************)
None == [t |-> "None"]

\* the sym None of the table: the application operator has no spelling
NoSym == "<None>"

Token(text, value, kind, line, column) ==
    [t |-> "Token", text |-> text, value |-> value, kind |-> kind,
     line |-> line, column |-> column]

ParseTree(label, children) ==
    [t |-> "ParseTree", label |-> label, children |-> children]

ParseFailure(msg, hi) ==
    [t |-> "ParseFailure", message |-> msg, labels |-> <<>>, highlight |-> hi]

\* an uncaught Python exception leaving the function
Fault(what) == [t |-> "Fault", error |-> what]

\* a Python list, as parse_interior returns
List(items) == [t |-> "list", items |-> items]

\* the pair (lhs, index) returned by _parse_operators
Pair(lhs, n) == [t |-> "Pair", tree |-> lhs, count |-> n]

(***************************************************************************)
(* The operator table, from high to low precedence.                        *)
(***************************************************************************)
OPERATORS == <<
    [assoc |-> "left",    ops |-> << <<".", "dot2">> >>],
    [assoc |-> "postfix", ops |-> << <<"?", "opt1">> >>],
    [assoc |-> "left",    ops |-> << <<NoSym, "appl2">> >>],
    [assoc |-> "right",   ops |-> << <<"^", "expo2">> >>],
    [assoc |-> "prefix",  ops |-> << <<"+", "plus1">>, <<"-", "minus1">>, <<"!", "not1">> >>],
    [assoc |-> "left",    ops |-> << <<"*", "mul2">>, <<"/", "div2">>, <<"%", "mod2">> >>],
    [assoc |-> "left",    ops |-> << <<"+", "plus2">>, <<"-", "minus2">> >>],
    [assoc |-> "left",    ops |-> << <<"&", "and2">> >>],
    [assoc |-> "left",    ops |-> << <<"|", "or2">>, <<"~", "xor2">> >>],
    [assoc |-> "right",   ops |-> << <<"++", "cat2">>, <<"::", "cons2">> >>],
    [assoc |-> "left",    ops |-> << <<">=", "geq2">>, <<"<=", "leq2">>, <<">", "gt2">>, <<"<", "lt2">> >>],
    [assoc |-> "left",    ops |-> << <<"=", "eq2">>, <<"==", "deq2">>, <<"!=", "neq2">> >>],
    [assoc |-> "right",   ops |-> << <<"&&", "land2">> >>],
    [assoc |-> "right",   ops |-> << <<"||", "lor2">> >>],
    [assoc |-> "right",   ops |-> << <<"$", "seq2">> >>],
    [assoc |-> "left",    ops |-> << <<":", "typ2">> >>],
    [assoc |-> "left",    ops |-> << <<",", "com2">> >>],
    [assoc |-> "right",   ops |-> << <<":=", "def2">> >>],
    [assoc |-> "right",   ops |-> << <<"<-", "assn2">> >>],
    [assoc |-> "left",    ops |-> << <<";", "sem2">> >>]
>>

\* level = OPERATORS[-1 - prec]
LevelFromTop(prec) == OPERATORS[prec + 1]
LevelAt(prec) == OPERATORS[Len(OPERATORS) - prec]

Precs == 0 .. (Len(OPERATORS) - 1)

\* the (prec, position) places of the table in levels of one of the kinds
Places(kinds) ==
    UNION {{<<p, i>> : i \in DOMAIN LevelAt(p).ops} :
              p \in {q \in Precs : LevelAt(q).assoc \in kinds}}

SymAt(pl) == LevelAt(pl[1]).ops[pl[2]][1]
NameAt(pl) == LevelAt(pl[1]).ops[pl[2]][2]

\* the place whose assignment to op_dict[sym] is executed last (prec runs upwards)
LastPlace(kinds, sym) ==
    CHOOSE pl \in Places(kinds) :
        /\ SymAt(pl) = sym
        /\ \A q \in Places(kinds) :
              SymAt(q) = sym => (q[1] < pl[1] \/ (q[1] = pl[1] /\ q[2] <= pl[2]))

SymsOf(kinds) == {SymAt(pl) : pl \in Places(kinds)}

prefix_ops ==
    [sym \in SymsOf({"prefix"}) |->
        LET pl == LastPlace({"prefix"}, sym)
        IN  [precedence |-> pl[1], name |-> NameAt(pl)]]

postfix_ops ==
    [sym \in SymsOf({"postfix"}) |->
        LET pl == LastPlace({"postfix"}, sym)
        IN  [precedence |-> pl[1], name |-> NameAt(pl)]]

binary_ops ==
    [sym \in SymsOf({"left", "right"}) |->
        LET pl == LastPlace({"left", "right"}, sym)
        IN  [precedence |-> pl[1], rassoc |-> (LevelAt(pl[1]).assoc = "right"),
             name |-> NameAt(pl)]]

multichar_ops == {sym \in SymsOf({"prefix", "postfix", "left", "right"}) \ {NoSym} : Len(sym) > 1}
singlechar_ops == {sym \in SymsOf({"prefix", "postfix", "left", "right"}) \ {NoSym} : Len(sym) = 1}

(***************************************************************************)
(* The precedence-climbing parser.                                         *)
(***************************************************************************)
isinstance(obj, cls) == obj.t = cls

IsSymbol(obj) == isinstance(obj, "Token") /\ obj.kind = "symbol"

\* seq[index:] with a 0-based index
From(s, i) == SubSeq(s, i + 1, Len(s))

\* binary_ops[None], the entry used where no operator token stands
application_rassoc == [binary_ops[NoSym] EXCEPT !.rassoc = TRUE]
application == binary_ops[NoSym]

\* the minimum precedence of the right-hand side of a binary operator
rhs_precedence_same(ent) == ent.precedence
rhs_precedence(ent) == ent.precedence + (IF ent.rassoc THEN 0 ELSE 1)

RECURSIVE _parse_operators(_, _), _parse_loop(_, _, _, _), _parse_rhs(_, _, _, _, _, _)

\* unpacking "rhs, num_tokens = rhs_parse": None cannot be unpacked
Unpackable(rhs_parse) == isinstance(rhs_parse, "Pair")

\* a variant that recovers from a failed recursive call with the tree built so far
_parse_rhs_recovering(s, min_precedence, name, children, i, rhs_parse) ==
    IF isinstance(rhs_parse, "Fault")
    THEN rhs_parse
    ELSE IF isinstance(rhs_parse, "ParseFailure")
    THEN Pair(ParseTree(name, children), Len(s))
    ELSE IF ~Unpackable(rhs_parse)
    THEN Fault("TypeError")
    ELSE _parse_loop(s, min_precedence,
                     ParseTree(name, Append(children, rhs_parse.tree)),
                     i + rhs_parse.count)

\* what follows a recursive call: return its failure, or unpack the pair, build
\* ParseTree(name, children + [rhs]) and go on with the loop at i + num_tokens
_parse_rhs(s, min_precedence, name, children, i, rhs_parse) ==
    IF isinstance(rhs_parse, "ParseFailure") \/ isinstance(rhs_parse, "Fault")
    THEN rhs_parse
    ELSE IF ~Unpackable(rhs_parse)
    THEN Fault("TypeError")
    ELSE _parse_loop(s, min_precedence,
                     ParseTree(name, Append(children, rhs_parse.tree)),
                     i + rhs_parse.count)

\* a variant of the loop that returns at an element that is no operator
_parse_loop_no_application(s, min_precedence, lhs, i) ==
    IF i >= Len(s) THEN Pair(lhs, i)
    ELSE
    LET op == s[i + 1]
        is_symbol == IsSymbol(op)
    IN  IF is_symbol /\ op.value \in DOMAIN postfix_ops
        THEN IF postfix_ops[op.value].precedence < min_precedence
             THEN Pair(lhs, i)
             ELSE _parse_loop(s, min_precedence,
                              ParseTree(postfix_ops[op.value].name, <<lhs>>), i + 1)
        ELSE IF ~(is_symbol /\ op.value \in DOMAIN binary_ops)
        THEN Pair(lhs, i)
        ELSE IF binary_ops[op.value].precedence < min_precedence THEN Pair(lhs, i)
        ELSE IF i + 1 >= Len(s)
        THEN ParseFailure("binary operator missing right-hand argument", op)
        ELSE _parse_rhs(s, min_precedence, binary_ops[op.value].name, <<lhs>>, i + 1,
                 _parse_operators(From(s, i + 1), rhs_precedence(binary_ops[op.value])))

\* the while loop of _parse_operators, entered with lhs and index
_parse_loop(s, min_precedence, lhs, i) ==
    IF i >= Len(s) THEN Pair(lhs, i)
    ELSE
    LET op == s[i + 1]
        is_symbol == IsSymbol(op)
    IN  IF is_symbol /\ op.value \in DOMAIN postfix_ops
        THEN IF postfix_ops[op.value].precedence < min_precedence
             THEN Pair(lhs, i)
             ELSE _parse_loop(s, min_precedence,
                              ParseTree(postfix_ops[op.value].name, <<lhs>>), i + 1)
        ELSE
        LET isbin == is_symbol /\ op.value \in DOMAIN binary_ops
            ent == IF isbin THEN binary_ops[op.value] ELSE application
            j == IF isbin THEN i + 1 ELSE i
        IN  IF ent.precedence < min_precedence THEN Pair(lhs, i)
            ELSE IF isbin /\ j >= Len(s)
            THEN ParseFailure("binary operator missing right-hand argument", op)
            ELSE _parse_rhs(s, min_precedence, ent.name, <<lhs>>, j,
                     _parse_operators(From(s, j), rhs_precedence(ent)))

\* a variant that looks a leading symbol up among the binary operators first
_parse_operators_binary_first(s, min_precedence) ==
    IF Len(s) = 0 THEN None
    ELSE
    LET lhs == s[1]
    IN  IF IsSymbol(lhs) /\ lhs.value \in DOMAIN binary_ops
        THEN ParseFailure("binary operator missing left-hand argument", lhs)
        ELSE IF IsSymbol(lhs) /\ lhs.value \in DOMAIN prefix_ops
        THEN _parse_rhs(s, min_precedence, prefix_ops[lhs.value].name, <<>>, 1,
                 _parse_operators(From(s, 1), prefix_ops[lhs.value].precedence))
        ELSE _parse_loop(s, min_precedence, lhs, 1)

_parse_operators(s, min_precedence) ==
    IF Len(s) = 0 THEN None
    ELSE
    LET lhs == s[1]
    IN  IF IsSymbol(lhs) /\ lhs.value \in DOMAIN prefix_ops
        THEN _parse_rhs(s, min_precedence, prefix_ops[lhs.value].name, <<>>, 1,
                 _parse_operators(From(s, 1), prefix_ops[lhs.value].precedence))
        ELSE IF IsSymbol(lhs) /\ lhs.value \in DOMAIN binary_ops
        THEN ParseFailure("binary operator missing left-hand argument", lhs)
        ELSE _parse_loop(s, min_precedence, lhs, 1)

\* the return of parse_operators: the failure, or parse[0]; parse[0] of None
\* raises TypeError
parse_operators_return(parse) ==
    IF isinstance(parse, "ParseFailure") \/ isinstance(parse, "Fault") THEN parse
    ELSE IF ~Unpackable(parse) THEN Fault("TypeError")
    ELSE parse.tree

parse_operators(s) == parse_operators_return(_parse_operators(s, 0))

\* the return of parse_interior: the failure, or a list of one element
parse_interior_return_labelled(container, op_parse) ==
    IF isinstance(op_parse, "ParseFailure") \/ isinstance(op_parse, "Fault")
    THEN op_parse
    ELSE IF container # "root"
    THEN List(<<ParseTree(container, <<op_parse>>)>>)
    ELSE List(<<op_parse>>)

parse_interior_return(container, op_parse) ==
    IF isinstance(op_parse, "ParseFailure") \/ isinstance(op_parse, "Fault")
    THEN op_parse
    ELSE IF container = "brackets" \/ container = "braces"
    THEN List(<<ParseTree(container, <<op_parse>>)>>)
    ELSE List(<<op_parse>>)

parse_interior(container, s) == parse_interior_return(container, parse_operators(s))

(***************************************************************************)
(* parse(seq): the fusion pass, the delimiter scan and the final parse.    *)
(***************************************************************************)
adjacent_any_line(tok1, tok2) ==
    (IF tok2.column >= tok1.column THEN tok2.column - tok1.column
                                   ELSE tok1.column - tok2.column) = 1

adjacent(tok1, tok2) ==
    tok2.line = tok1.line
    /\ (IF tok2.column >= tok1.column THEN tok2.column - tok1.column
                                      ELSE tok1.column - tok2.column) = 1

left_delims == <<"(", "[", "{">>
right_delims == <<")", "]", "}">>
\* a variant in which every opener is closed by a right parenthesis
corresponding_round == [d \in {"(", "[", "{"} |-> ")"]
corresponding == [d \in {"(", "[", "{"} |->
                     IF d = "(" THEN ")" ELSE IF d = "[" THEN "]" ELSE "}"]
delim_name == [d \in {")", "]", "}"} |->
                  IF d = ")" THEN "parentheses"
                  ELSE IF d = "]" THEN "brackets" ELSE "braces"]

Range(f) == {f[i] : i \in DOMAIN f}

IsDelim(token) ==
    token.kind = "symbol" /\ token.value \in Range(left_delims \o right_delims)

\* stack[-1]
top_oldest(stk) == stk[1]
top(stk) == stk[Len(stk)]

\* a variant that goes on with the element right after a fused token
FuseStep_no_skip ==
    /\ pc = "fuse"
    /\ index < Len(seq) - 1
    /\ LET tok1 == seq[index + 1]
           tok2 == seq[index + 2]
       IN  IF ~isinstance(tok1, "Token") \/ ~isinstance(tok2, "Token")
           THEN /\ result' = Fault("AttributeError")
                /\ pc' = "done"
                /\ UNCHANGED <<seq, index>>
           ELSE IF /\ tok1.kind = "symbol" /\ tok2.kind = "symbol"
                   /\ adjacent(tok1, tok2)
                   /\ (tok1.value \o tok2.value) \in multichar_ops
           THEN LET concat == tok1.value \o tok2.value
                    tok == Token(concat, concat, "symbol", tok1.line, tok1.column)
                IN  /\ seq' = [seq EXCEPT ![index + 1] = tok, ![index + 2] = None]
                    /\ index' = index + 1
                    /\ UNCHANGED <<pc, result>>
           ELSE /\ index' = index + 1
                /\ UNCHANGED <<seq, pc, result>>
    /\ UNCHANGED <<input, stack>>
    /\ UNCHANGED <<bvars, lvars>>

\* one iteration of the loop joining up multicharacter operators
FuseStep ==
    /\ pc = "fuse"
    /\ index < Len(seq) - 1
    /\ LET tok1 == seq[index + 1]
           tok2 == seq[index + 2]
       IN  IF ~isinstance(tok1, "Token") \/ ~isinstance(tok2, "Token")
           THEN /\ result' = Fault("AttributeError")
                /\ pc' = "done"
                /\ UNCHANGED <<seq, index>>
           ELSE IF /\ tok1.kind = "symbol" /\ tok2.kind = "symbol"
                   /\ adjacent(tok1, tok2)
                   /\ (tok1.value \o tok2.value) \in multichar_ops
           THEN LET concat == tok1.value \o tok2.value
                    tok == Token(concat, concat, "symbol", tok1.line, tok1.column)
                IN  /\ seq' = [seq EXCEPT ![index + 1] = tok, ![index + 2] = None]
                    /\ index' = index + 2
                    /\ UNCHANGED <<pc, result>>
           ELSE /\ index' = index + 1
                /\ UNCHANGED <<seq, pc, result>>
    /\ UNCHANGED <<input, stack>>
    /\ UNCHANGED <<bvars, lvars>>

\* the loop ends: drop the None placeholders and start the delimiter scan
FuseEnd ==
    /\ pc = "fuse"
    /\ index >= Len(seq) - 1
    /\ seq' = SelectSeq(seq, LAMBDA tok : tok # None)
    /\ pc' = "scan"
    /\ index' = 0
    /\ stack' = <<>>
    /\ UNCHANGED <<input, result>>
    /\ UNCHANGED <<bvars, lvars>>

\* an element that is no delimiter
ScanSkip ==
    /\ pc = "scan"
    /\ index < Len(seq)
    /\ LET token == seq[index + 1]
       IN  IF ~isinstance(token, "Token")
           THEN /\ result' = Fault("AttributeError")
                /\ pc' = "done"
                /\ UNCHANGED index
           ELSE /\ ~IsDelim(token)
                /\ index' = index + 1
                /\ UNCHANGED <<pc, result>>
    /\ UNCHANGED <<input, seq, stack>>
    /\ UNCHANGED <<bvars, lvars>>

\* an opening delimiter is pushed with the closer it expects
ScanOpen ==
    /\ pc = "scan"
    /\ index < Len(seq)
    /\ LET token == seq[index + 1]
       IN  /\ isinstance(token, "Token")
           /\ IsDelim(token)
           /\ token.value \in Range(left_delims)
           /\ stack' = Append(stack, <<index, corresponding[token.value]>>)
           /\ index' = index + 1
    /\ UNCHANGED <<input, seq, pc, result>>
    /\ UNCHANGED <<bvars, lvars>>

\* a closing delimiter with nothing pending
ScanUnpaired ==
    /\ pc = "scan"
    /\ index < Len(seq)
    /\ LET token == seq[index + 1]
       IN  /\ isinstance(token, "Token")
           /\ IsDelim(token)
           /\ token.value \notin Range(left_delims)
           /\ Len(stack) = 0
           /\ result' = ParseFailure("unpaired delimiter", token)
           /\ pc' = "done"
    /\ UNCHANGED <<input, seq, index, stack>>
    /\ UNCHANGED <<bvars, lvars>>

\* a closing delimiter that is not the one the innermost pending opener expects
ScanMismatch ==
    /\ pc = "scan"
    /\ index < Len(seq)
    /\ LET token == seq[index + 1]
       IN  /\ isinstance(token, "Token")
           /\ IsDelim(token)
           /\ token.value \notin Range(left_delims)
           /\ Len(stack) > 0
           /\ token.value # top(stack)[2]
           /\ result' = ParseFailure("mismatched or unpaired delimiter", token)
           /\ pc' = "done"
    /\ UNCHANGED <<input, seq, index, stack>>
    /\ UNCHANGED <<bvars, lvars>>

\* a variant that leaves the resolved opener on the stack
ScanClose_no_pop ==
    /\ pc = "scan"
    /\ index < Len(seq)
    /\ LET token == seq[index + 1]
       IN  /\ isinstance(token, "Token")
           /\ IsDelim(token)
           /\ token.value \notin Range(left_delims)
           /\ Len(stack) > 0
           /\ token.value = top(stack)[2]
           /\ LET left_index == top(stack)[1]
                  interior == SubSeq(seq, left_index + 2, index)
                  inter_length == Len(interior)
              IN  \E replacement \in {parse_interior(delim_name[token.value], interior)} :
                  IF isinstance(replacement, "ParseFailure")
                     \/ isinstance(replacement, "Fault")
                  THEN /\ result' = replacement
                       /\ pc' = "done"
                       /\ UNCHANGED <<seq, index, stack>>
                  ELSE LET repl_length == Len(replacement.items)
                       IN  /\ seq' = SubSeq(seq, 1, left_index) \o replacement.items
                                        \o SubSeq(seq, index + 2, Len(seq))
                           /\ index' = (index - 1 - (inter_length - repl_length) - 1) + 1
                           /\ stack' = stack
                           /\ UNCHANGED <<pc, result>>
    /\ UNCHANGED input
    /\ UNCHANGED <<bvars, lvars>>

\* the matching closing delimiter: parse the interior and splice it in
ScanClose ==
    /\ pc = "scan"
    /\ index < Len(seq)
    /\ LET token == seq[index + 1]
       IN  /\ isinstance(token, "Token")
           /\ IsDelim(token)
           /\ token.value \notin Range(left_delims)
           /\ Len(stack) > 0
           /\ token.value = top(stack)[2]
           /\ LET left_index == top(stack)[1]
                  interior == SubSeq(seq, left_index + 2, index)
                  inter_length == Len(interior)
              IN  \E replacement \in {parse_interior(delim_name[token.value], interior)} :
                  IF isinstance(replacement, "ParseFailure")
                     \/ isinstance(replacement, "Fault")
                  THEN /\ result' = replacement
                       /\ pc' = "done"
                       /\ UNCHANGED <<seq, index, stack>>
                  ELSE LET repl_length == Len(replacement.items)
                       IN  /\ seq' = SubSeq(seq, 1, left_index) \o replacement.items
                                        \o SubSeq(seq, index + 2, Len(seq))
                           /\ index' = (index - 1 - (inter_length - repl_length) - 1) + 1
                           /\ stack' = SubSeq(stack, 1, Len(stack) - 1)
                           /\ UNCHANGED <<pc, result>>
    /\ UNCHANGED input
    /\ UNCHANGED <<bvars, lvars>>

\* the scan is over: an opener still pending, or the final parse
ScanEnd ==
    /\ pc = "scan"
    /\ index >= Len(seq)
    /\ result' = IF Len(stack) > 0
                 THEN ParseFailure("unpaired delimiter", seq[top(stack)[1] + 1])
                 ELSE parse_interior("root", seq)
    /\ pc' = "done"
    /\ UNCHANGED <<input, seq, index, stack>>
    /\ UNCHANGED <<bvars, lvars>>

(***************************************************************************)
(* The token sequences handed to parse.  A sequence is laid out as the     *)
(* tokenizer lays out a line of text: every character of a symbol is one   *)
(* token, and a token starts right after the previous one ("adj"), after   *)
(* one blank ("sp") or at the start of the next line ("nl").               *)
(***************************************************************************)
MaxLen == 3
MaxNest == 4
MaxFuse == 3

Elem(ch, kind, gap) == [ch |-> ch, kind |-> kind, gap |-> gap]

RECURSIVE Lay(_, _, _)
Lay(elems, line, column) ==
    IF elems = <<>> THEN <<>>
    ELSE LET e == Head(elems)
             l == IF e.gap = "nl" THEN line + 1 ELSE line
             c == IF e.gap = "nl" THEN 1
                  ELSE IF e.gap = "sp" THEN column + 1 ELSE column
         IN  <<Token(e.ch, e.ch, e.kind, l, c)>> \o Lay(Tail(elems), l, c + 1)

KindOf(ch) == IF ch = "x" THEN "word" ELSE "symbol"

SeqsUpTo(S, n) == UNION {[1 .. k -> S] : k \in 0 .. n}

\* every sequence of up to MaxLen elements, one blank apart
GeneralChars == {"x", "+", "=", "?", "(", ")", "[", "]"}
General ==
    {Lay([i \in DOMAIN cs |-> Elem(cs[i], KindOf(cs[i]), IF i = 1 THEN "adj" ELSE "sp")], 1, 1) :
        cs \in SeqsUpTo(GeneralChars, MaxLen)}

\* every sequence of up to MaxNest operands and delimiters, one blank apart
NestChars == {"x", "(", ")", "[", "]"}
Nested ==
    {Lay([i \in DOMAIN cs |-> Elem(cs[i], KindOf(cs[i]), IF i = 1 THEN "adj" ELSE "sp")], 1, 1) :
        cs \in SeqsUpTo(NestChars, MaxNest)}

\* every sequence of up to MaxFuse elements in every layout
FuseChars == {"x", "+", "="}
Fusable ==
    {Lay([i \in DOMAIN es |-> Elem(es[i][1], KindOf(es[i][1]), IF i = 1 THEN "adj" ELSE es[i][2])], 1, 1) :
        es \in SeqsUpTo(FuseChars \X {"adj", "sp", "nl"}, MaxFuse)}

\* the characters of a spelling of the table
Chars(sym) ==
    IF Len(sym) = 1 THEN <<sym>>
    ELSE CHOOSE cs \in singlechar_ops \X singlechar_ops : cs[1] \o cs[2] = sym

\* an operator between two operands: nothing for the application operator, else
\* its characters, the first after a blank and the others right behind it
OpElems(sym) ==
    IF sym = NoSym THEN <<>>
    ELSE [i \in DOMAIN Chars(sym) |->
             Elem(Chars(sym)[i], "symbol", IF i = 1 THEN "sp" ELSE "adj")]

Operand == <<Elem("x", "word", "sp")>>

\* group wrapped in a pair of delimiters, or bare
Wrapped(open, group) ==
    IF open = "" THEN group
    ELSE <<Elem(open, "symbol", "sp")>> \o group
             \o <<Elem(corresponding[open], "symbol", "adj")>>

\* x A y B z for all binary operators A and B of the table, bare and with the
\* left or the right pair of operands in parentheses, brackets or braces
Chains ==
    {Lay(chain, 1, 0) : chain \in
        UNION {{Wrapped(open, Operand \o OpElems(A) \o Operand) \o OpElems(B) \o Operand,
                Operand \o OpElems(A) \o Wrapped(open, Operand \o OpElems(B) \o Operand)} :
                  <<A, B, open>> \in (DOMAIN binary_ops) \X (DOMAIN binary_ops)
                                        \X {"", "(", "[", "{"}}}

\* every sequence of up to MaxLen operands and operators, one blank apart, in
\* parentheses, brackets or braces
BracketedChars == {"x", "+", "="}
Bracketed ==
    {Lay(Wrapped(open, [i \in DOMAIN cs |-> Elem(cs[i], KindOf(cs[i]), "sp")]), 1, 0) :
        <<open, cs>> \in {"(", "[", "{"} \X SeqsUpTo(BracketedChars, MaxLen)}

Inputs == General \cup Nested \cup Fusable \cup Chains \cup Bracketed

\* no token buffer has been constructed
NoBuffer ==
    /\ stream = None
    /\ buffer = <<>>
    /\ is_complete = FALSE
    /\ source = None
    /\ call = None

\* the settings of lexer.py as it stands, and no token pulled yet
AsShipped ==
    /\ RADIX_PT = "."
    /\ emitted = <<>>

Init ==
    /\ input \in Inputs
    /\ seq = input
    /\ pc = IF Cardinality(multichar_ops) > 0 THEN "fuse" ELSE "scan"
    /\ index = 0
    /\ stack = <<>>
    /\ result = None
    /\ NoBuffer
    /\ AsShipped

Next ==
    \/ FuseStep
    \/ FuseEnd
    \/ ScanSkip
    \/ ScanOpen
    \/ ScanUnpaired
    \/ ScanMismatch
    \/ ScanClose
    \/ ScanEnd

Spec == Init /\ [][Next]_vars

(***************************************************************************)
(* The tokenizer of lexer.py.  Text is a sequence of characters.  The      *)
(* continuation supplier is a function object; what it will return, call   *)
(* after call, is its field returns.  A call of a supplier that has        *)
(* nothing more to return does not return (the prompt waits for input).    *)
(***************************************************************************)
EMIT_NEWLINES == TRUE
COMMENT == "#"
STR_DELIM == "\""
ESCAPE == "\\"
GRP_SEPR == "'"
MID_WORD == {"-"}
END_WORD == {"!", "?", "'"}
\* (the grave accent and the five non-ASCII members of the list are left
\* out: no text of the model holds them)
NON_WORD ==
    {":", ";", ".", ",", "=", "|", "&", "*", "+", "-", "/", "!", "?", "^",
     "@", "~", "%", "$", "<", ">", "_", "'",
     "(", ")", "[", "]", "{", "}", "\\"}

\* the characters \s and \d match, among those a TLA+ string can hold
Whitespace == {" ", "\t", "\n", "\r", "\f"}
Digits == {"0", "1", "2", "3", "4", "5", "6", "7", "8", "9"}

\* the class word of word_regex
IsWordChar(c) == c \notin Whitespace \cup NON_WORD \cup {COMMENT, STR_DELIM}

\* "\x1B" has no spelling in a TLA+ string
ESC == "<ESC>"
\* an escape table that keeps the escaped character as it is
escape_seq_verbatim == [c \in {ESCAPE, STR_DELIM, "n", "r", "e"} |-> c]

escape_seq ==
    [c \in {ESCAPE, STR_DELIM, "n", "r", "e"} |->
        IF c = "n" THEN "\n" ELSE IF c = "r" THEN "\r" ELSE IF c = "e" THEN ESC ELSE c]

RECURSIVE Str(_)
\* ''.join(chars)
Str(cs) == IF cs = <<>> THEN "" ELSE Head(cs) \o Str(Tail(cs))

\* text[:n] and text[n:]
Take(text, n) == SubSeq(text, 1, n)
Drop(text, n) == SubSeq(text, n + 1, Len(text))

\* the length of the longest prefix of text[n:] made of characters of class
RECURSIVE Run(_, _, _)
Run(text, n, class) ==
    IF n < Len(text) /\ text[n + 1] \in class THEN 1 + Run(text, n + 1, class) ELSE 0

RECURSIVE RunWord(_, _)
RunWord(text, n) ==
    IF n < Len(text) /\ IsWordChar(text[n + 1]) THEN 1 + RunWord(text, n + 1) ELSE 0

\* a supplier that will return the chunks of returns, in order
Supplier(returns) == [t |-> "function", returns |-> returns]

\* TokenStream(text, more)
TokenStream(text, more) ==
    [t |-> "TokenStream", text |-> text, more |-> more, line |-> 1, column |-> 1,
     just_emitted_newline |-> FALSE, log |-> text]

Newlines(string) == Cardinality({i \in DOMAIN string : string[i] = "\n"})
RIndexNewline(string) == (CHOOSE i \in DOMAIN string :
                             string[i] = "\n" /\ \A j \in DOMAIN string : string[j] = "\n" => j <= i) - 1
IndexNewline(string) == (CHOOSE i \in DOMAIN string :
                            string[i] = "\n" /\ \A j \in DOMAIN string : string[j] = "\n" => i <= j) - 1

\* an _advance that counts columns only
_advance_columns(st, string) == [st EXCEPT !.column = st.column + Len(string)]

\* self._advance(string)
_advance(st, string) ==
    IF Newlines(string) = 0
    THEN [st EXCEPT !.column = st.column + Len(string)]
    ELSE [st EXCEPT !.line = st.line + Newlines(string),
                    !.column = Len(string) - RIndexNewline(string)]

\* self._advance(self.text[:n]); self.text = self.text[n:]
Consume(st, n) == [_advance(st, Take(st.text, n)) EXCEPT !.text = Drop(st.text, n)]

\* a tokenizer that keeps no log of what the supplier returned
Feed_unlogged(st) ==
    [st EXCEPT !.text = st.text \o Head(st.more.returns),
               !.more = Supplier(Tail(st.more.returns))]

\* addendum = self.more(); self.text += addendum; self.log += addendum
Feed(st) ==
    [st EXCEPT !.text = st.text \o Head(st.more.returns),
               !.log = st.log \o Head(st.more.returns),
               !.more = Supplier(Tail(st.more.returns))]

HasMore(st) == ~isinstance(st.more, "None")
MoreReturns(st) == st.more.returns # <<>>

\* what a call of __next__ comes to: the value returned (a Token or None), an
\* Exception raised, or "Blocked" when the supplier does not return; and the
\* stream after it
Outcome(ret, st) == [ret |-> ret, stream |-> st]
Blocked == [t |-> "Blocked"]
Exception(msg) == [t |-> "Exception", message |-> msg]

\* f"{msg} ({tok_line}, {tok_column})"
Located(msg, tok_line, tok_column) ==
    msg \o " (" \o ToString(tok_line) \o ", " \o ToString(tok_column) \o ")"

\* the end of the match of num_regex at text[n:], n at the end of a digit run:
\* groups of a separator and digits
RECURSIVE NumGroups(_, _)
NumGroups(text, n) ==
    IF n < Len(text) /\ text[n + 1] = GRP_SEPR /\ Run(text, n + 1, Digits) > 0
    THEN NumGroups(text, n + 1 + Run(text, n + 1, Digits))
    ELSE n

\* ... then the radix point and a further grouped digit run, when configured
NumFraction(text, n) ==
    IF RADIX_PT # "" /\ n < Len(text) /\ text[n + 1] = RADIX_PT /\ Run(text, n + 1, Digits) > 0
    THEN NumGroups(text, n + 1 + Run(text, n + 1, Digits))
    ELSE n

\* the length of the match of num_regex at the start of text, 0 for no match
NumMatch(text) ==
    IF Run(text, 0, Digits) = 0 THEN 0
    ELSE NumFraction(text, NumGroups(text, Run(text, 0, Digits)))

DigitValue(c) == CHOOSE v \in 0 .. 9 : <<"0", "1", "2", "3", "4", "5", "6", "7", "8", "9">>[v + 1] = c

\* int(digits)
RECURSIVE IntOf(_)
IntOf(digits) ==
    IF digits = <<>> THEN 0
    ELSE 10 * IntOf(Take(digits, Len(digits) - 1)) + DigitValue(digits[Len(digits)])

\* a Python int
PyInt(n) == [t |-> "int", value |-> n]

\* a Python float: mantissa / 10^places, with no trailing zero in the places
RECURSIVE Float(_, _)
Float(mantissa, places) ==
    IF places > 0 /\ mantissa % 10 = 0 THEN Float(mantissa \div 10, places - 1)
    ELSE [t |-> "float", mantissa |-> mantissa, places |-> places]

\* float(canonical), canonical being digits with at most one "."
FloatOf(canonical) ==
    Float(IntOf(SelectSeq(canonical, LAMBDA c : c # ".")),
          IF "." \in Range(canonical)
          THEN Len(canonical) - (CHOOSE i \in DOMAIN canonical : canonical[i] = ".")
          ELSE 0)

\* sub in string, for sub of at most one character: the empty string is in
\* every string
In(sub, string) == sub = "" \/ sub \in Range(string)

\* the value of the numeric literal numstr
NumValue(numstr) ==
    IF In(RADIX_PT, SelectSeq(numstr, LAMBDA c : c # GRP_SEPR))
    THEN FloatOf(SelectSeq(numstr, LAMBDA c : c # GRP_SEPR))
    ELSE PyInt(IntOf(SelectSeq(numstr, LAMBDA c : c # GRP_SEPR)))

\* the length of the match of word_regex at the start of text, 0 for no match:
\* runs of word characters joined by single mid-word characters ...
RECURSIVE WordRuns(_, _)
WordRuns(text, n) ==
    IF n < Len(text) /\ text[n + 1] \in MID_WORD /\ RunWord(text, n + 1) > 0
    THEN WordRuns(text, n + 1 + RunWord(text, n + 1))
    ELSE n

\* ... and a run of one of the end-word characters
WordEnd(text, n) ==
    IF n < Len(text) /\ text[n + 1] \in END_WORD
    THEN n + Run(text, n, {text[n + 1]})
    ELSE n

WordMatch(text) ==
    IF RunWord(text, 0) = 0 THEN 0
    ELSE WordEnd(text, WordRuns(text, RunWord(text, 0)))

RECURSIVE __next__(_), NextComment(_), NextString(_, _, _, _, _, _)

\* return Token(text[:n], value, kind, tok_line, tok_column) after consuming it
Emit(st, n, value, kind) ==
    Outcome(Token(Str(Take(st.text, n)), value, kind, st.line, st.column), Consume(st, n))

\* the loop scanning a string literal
NextString(st, idx, escape, value, tok_line, tok_column) ==
    IF idx >= Len(st.text)
    THEN IF ~HasMore(st)
         THEN Outcome(Exception(Located("unterminated string", tok_line, tok_column)), st)
         ELSE IF ~MoreReturns(st) THEN Outcome(Blocked, st)
         ELSE NextString(Feed(st), idx, escape, value, tok_line, tok_column)
    ELSE IF escape
    THEN IF st.text[idx + 1] \notin DOMAIN escape_seq
         THEN Outcome(Exception(Located("unknown escape sequence", tok_line, tok_column)), st)
         ELSE NextString(st, idx + 1, FALSE, value \o escape_seq[st.text[idx + 1]],
                         tok_line, tok_column)
    ELSE IF st.text[idx + 1] = ESCAPE
    THEN NextString(st, idx + 1, TRUE, value, tok_line, tok_column)
    ELSE IF st.text[idx + 1] = STR_DELIM
    THEN Emit(st, idx + 1, value, "string")
    ELSE NextString(st, idx + 1, FALSE, value \o st.text[idx + 1], tok_line, tok_column)

\* a number, a string, a symbol or a word at the start of the text
NextToken(st) ==
    IF NumMatch(st.text) > 0
    THEN Emit(st, NumMatch(st.text), NumValue(Take(st.text, NumMatch(st.text))), "numeric")
    ELSE IF Head(st.text) = STR_DELIM
    THEN NextString(st, 1, FALSE, "", st.line, st.column)
    ELSE IF Head(st.text) \in NON_WORD
    THEN Emit(st, 1, Head(st.text), "symbol")
    ELSE IF WordMatch(st.text) > 0
    THEN Emit(st, WordMatch(st.text), Str(Take(st.text, WordMatch(st.text))), "word")
    ELSE Outcome(Exception(Located("unknown lexing error", st.line, st.column)), st)

\* the loop discarding a comment
NextComment(st) ==
    IF "\n" \in Range(st.text)
    THEN __next__(Consume(st, IndexNewline(st.text)))
    ELSE IF ~HasMore(st) THEN Outcome(None, Consume(st, Len(st.text)))
    ELSE IF ~MoreReturns(st) THEN Outcome(Blocked, Consume(st, Len(st.text)))
    ELSE NextComment(Feed(Consume(st, Len(st.text))))

\* after the whitespace step: end of the text, a comment, or a token
NextAfterSpace(st) ==
    IF Len(st.text) = 0
    THEN IF ~HasMore(st) THEN Outcome(None, st)
         ELSE IF ~MoreReturns(st) THEN Outcome(Blocked, st)
         ELSE __next__(Feed(st))
    ELSE IF Head(st.text) = COMMENT
    THEN NextComment(st)
    ELSE NextToken([st EXCEPT !.just_emitted_newline = FALSE])

\* a newline token for every whitespace run that holds a newline
EmitsNewline_always(st, whitespace) == EMIT_NEWLINES /\ "\n" \in Range(whitespace)

\* if EMIT_NEWLINES and ("\n" in whitespace) and not self.just_emitted_newline
EmitsNewline(st, whitespace) ==
    /\ EMIT_NEWLINES
    /\ "\n" \in Range(whitespace)
    /\ ~st.just_emitted_newline

\* TokenStream.__next__
__next__(st) ==
    IF Run(st.text, 0, Whitespace) > 0
    THEN IF EmitsNewline(st, Take(st.text, Run(st.text, 0, Whitespace)))
         THEN Outcome(Token(Str(Take(st.text, Run(st.text, 0, Whitespace))), NoSym,
                            "newline", st.line, st.column),
                      [Consume(st, Run(st.text, 0, Whitespace))
                          EXCEPT !.just_emitted_newline = TRUE])
         ELSE NextAfterSpace(Consume(st, Run(st.text, 0, Whitespace)))
    ELSE NextAfterSpace(st)

(***************************************************************************)
(* The token buffer of lexer.py.  A call on the buffer comes to the buffer  *)
(* after it, what it returned or raised, and the number of __next__ calls   *)
(* it made.  A call whose supplier does not return stays in the call.      *)
(***************************************************************************)
Self == [stream |-> stream, buffer |-> buffer, is_complete |-> is_complete]

Returned(self, ret, calls) == [self |-> self, ret |-> ret, calls |-> calls]

IndexError(msg) == [t |-> "IndexError", message |-> msg]

\* list[idx]
Subscript(list, idx) ==
    IF 0 <= idx /\ idx < Len(list) THEN list[idx + 1]
    ELSE IF idx < 0 /\ -idx <= Len(list) THEN list[Len(list) + idx + 1]
    ELSE IndexError("list index out of range")

\* range(idx - len(self.buffer)) pulls one token too few
Missing_fewer(self, idx) == idx - Len(self.buffer)

\* the iterations of the loop of __getitem__
Missing(self, idx) == idx - Len(self.buffer) + 1

RECURSIVE GetItemLoop(_, _, _), GetItemPulled(_, _, _, _)

\* one iteration: tok = next(self.stream) has come to pulled
GetItemPulled(self, n, calls, pulled) ==
    IF isinstance(pulled.ret, "Blocked")
    THEN Returned([self EXCEPT !.stream = pulled.stream], Blocked, calls + 1)
    ELSE IF isinstance(pulled.ret, "Exception")
    THEN Returned([self EXCEPT !.stream = pulled.stream], pulled.ret, calls + 1)
    ELSE IF isinstance(pulled.ret, "None")
    THEN Returned([self EXCEPT !.stream = pulled.stream, !.is_complete = TRUE], None, calls + 1)
    ELSE GetItemLoop([self EXCEPT !.stream = pulled.stream,
                                  !.buffer = Append(self.buffer, pulled.ret)],
                     n - 1, calls + 1)

\* the for loop of __getitem__ with n iterations to go
GetItemLoop(self, n, calls) ==
    IF n <= 0 THEN Returned(self, None, calls)
    ELSE GetItemPulled(self, n, calls, __next__(self.stream))

\* return self.buffer[idx], after the loop
GetItemReturn(looped, idx) ==
    IF isinstance(looped.ret, "None")
    THEN Returned(looped.self, Subscript(looped.self.buffer, idx), looped.calls)
    ELSE looped

\* TokenBuffer.__getitem__
__getitem__(self, idx) ==
    IF self.is_complete
    THEN Returned(self, Subscript(self.buffer, idx), 0)
    ELSE IF idx < 0
    THEN Returned(self, IndexError("length unknown because buffer has not been completed"), 0)
    ELSE IF idx >= Len(self.buffer)
    THEN GetItemReturn(GetItemLoop(self, Missing(self, idx), 0), idx)
    ELSE Returned(self, Subscript(self.buffer, idx), 0)

\* a __len__ that answers before completion
LengthKnown_always(self) == TRUE

\* if self.is_complete
LengthKnown(self) == self.is_complete

\* TokenBuffer.__len__
__len__(self) ==
    IF LengthKnown(self)
    THEN Returned(self, PyInt(Len(self.buffer)), 0)
    ELSE Returned(self, Exception("length unknown because buffer has not been completed"), 0)

\* a complete that drains whatever the stream is backed by
Refused_never(self) == FALSE

\* if self.stream.more is not None
Refused(self) == HasMore(self.stream)

RECURSIVE CompleteLoop(_, _), CompletePulled(_, _, _)

\* one iteration: (tok := next(self.stream)) has come to pulled
CompletePulled(self, calls, pulled) ==
    IF isinstance(pulled.ret, "Blocked")
    THEN Returned([self EXCEPT !.stream = pulled.stream], Blocked, calls + 1)
    ELSE IF isinstance(pulled.ret, "Exception")
    THEN Returned([self EXCEPT !.stream = pulled.stream], pulled.ret, calls + 1)
    ELSE IF isinstance(pulled.ret, "None")
    THEN Returned([self EXCEPT !.stream = pulled.stream, !.is_complete = TRUE], None, calls + 1)
    ELSE CompleteLoop([self EXCEPT !.stream = pulled.stream,
                                   !.buffer = Append(self.buffer, pulled.ret)],
                      calls + 1)

\* the while loop of complete
CompleteLoop(self, calls) == CompletePulled(self, calls, __next__(self.stream))

\* TokenBuffer.complete
complete(self) ==
    IF Refused(self)
    THEN Returned(self, Exception("cannot complete buffer while self.stream.more is not None"), 0)
    ELSE CompleteLoop(self, 0)

\* the call in progress waits for its supplier
Hung == isinstance(call.ret, "Blocked")

\* the buffer after a call
Becomes(self) ==
    /\ stream' = self.stream
    /\ buffer' = self.buffer
    /\ is_complete' = self.is_complete

\* buf[idx]
GetItem(idx) ==
    /\ ~isinstance(stream, "None")
    /\ ~Hung
    /\ \E r \in {__getitem__(Self, idx)} :
           /\ Becomes(r.self)
           /\ call' = [name |-> "__getitem__", idx |-> idx, ret |-> r.ret, calls |-> r.calls]
    /\ UNCHANGED <<source, pvars, lvars>>

\* len(buf)
Length ==
    /\ ~isinstance(stream, "None")
    /\ ~Hung
    /\ \E r \in {__len__(Self)} :
           /\ Becomes(r.self)
           /\ call' = [name |-> "__len__", ret |-> r.ret, calls |-> r.calls]
    /\ UNCHANGED <<source, pvars, lvars>>

\* buf.complete()
Complete ==
    /\ ~isinstance(stream, "None")
    /\ ~Hung
    /\ \E r \in {complete(Self)} :
           /\ Becomes(r.self)
           /\ call' = [name |-> "complete", ret |-> r.ret, calls |-> r.calls]
    /\ UNCHANGED <<source, pvars, lvars>>

(***************************************************************************)
(* The buffers considered: over every text of up to MaxText characters     *)
(* with no supplier, and over a short text with a supplier that returns up *)
(* to MaxChunks chunks.                                                    *)
(***************************************************************************)
MaxText == 3
MaxChunks == 2

TextChars == {"a", "+", " ", "\n", COMMENT, STR_DELIM}
Texts == UNION {[1 .. n -> TextChars] : n \in 0 .. MaxText}

Chunks == {<<"a", "\n">>, <<"a", STR_DELIM>>, <<COMMENT>>, <<"\n">>}
Scripts == UNION {[1 .. n -> Chunks] : n \in 0 .. MaxChunks}
Prompts == {<<>>, <<"a">>, <<STR_DELIM>>, <<COMMENT, "a">>}

\* the indices asked for
Indices == -1 .. MaxText

\* parse is not running
NoParse ==
    /\ input = <<>>
    /\ seq = <<>>
    /\ pc = "idle"
    /\ index = 0
    /\ stack = <<>>
    /\ result = None

\* buf = TokenBuffer(text, more)
InitBuf ==
    /\ \/ \E text \in Texts : stream = TokenStream(text, None)
       \/ \E text \in Prompts, returns \in Scripts :
              stream = TokenStream(text, Supplier(returns))
    /\ buffer = <<>>
    /\ is_complete = FALSE
    /\ source = stream
    /\ call = [name |-> "__init__", ret |-> None, calls |-> 0]
    /\ NoParse
    /\ AsShipped

NextBuf ==
    \/ \E idx \in Indices : GetItem(idx)
    \/ Length
    \/ Complete

SpecBuf == InitBuf /\ [][NextBuf]_vars

(***************************************************************************)
(* The tokenizer on its own: next(stream), call after call, over the same  *)
(* texts and suppliers, under either setting of RADIX_PT.                  *)
(***************************************************************************)
\* numeric literals: an integer part, a fraction or none, and what follows
IntLits == {<<"1">>, <<"0", "0", "7">>, <<"1", "'", "0", "0", "0">>, <<"1", "2", "'", "3">>}
FracLits == {<<>>, <<".", "5">>, <<".", "5", "0">>, <<".", "2", "'", "5">>}
Tails == {<<>>, <<"'">>, <<".">>, <<"a">>, <<" ", "1">>}
Numerals == {int \o frac \o tail : int \in IntLits, frac \in FracLits, tail \in Tails}

\* string literals: up to MaxItems characters and escape pairs between the
\* delimiters, closed or left open
MaxItems == 2

Items ==
    {<<"a">>, <<" ">>, <<"\n">>, <<COMMENT>>,
     <<ESCAPE, "n">>, <<ESCAPE, "r">>, <<ESCAPE, "e">>, <<ESCAPE, STR_DELIM>>,
     <<ESCAPE, ESCAPE>>, <<ESCAPE, "a">>}

RECURSIVE Bodies(_)
Bodies(n) ==
    IF n = 0 THEN {<<>>}
    ELSE Bodies(n - 1) \cup {body \o item : body \in Bodies(n - 1), item \in Items}

Literals ==
    {<<STR_DELIM>> \o body \o close : body \in Bodies(MaxItems),
                                       close \in {<<>>, <<STR_DELIM>>}}

\* a text whole, or its start with a supplier that returns the rest, or a
\* supplier alone that returns it character by character
Whole(texts) == {TokenStream(text, None) : text \in texts}
Split(texts) ==
    UNION {{TokenStream(Take(text, k), Supplier(<<Drop(text, k)>>)) :
               k \in 0 .. Len(text) - 1} : text \in texts}
Spelled(texts) ==
    {TokenStream(<<>>, Supplier([i \in DOMAIN text |-> <<text[i]>>])) : text \in texts}

\* the streams of the texts and suppliers above
Streams ==
    Whole(Texts \cup Numerals \cup Literals)
        \cup {TokenStream(text, Supplier(returns)) : text \in Prompts, returns \in Scripts}
        \cup Split(Literals) \cup Spelled(Literals)

\* stream = TokenStream(text, more)
InitLex ==
    /\ stream \in Streams
    /\ source = stream
    /\ call = [name |-> "__init__", ret |-> None, calls |-> 0]
    /\ emitted = <<>>
    /\ \/ RADIX_PT = "."
       \/ RADIX_PT = "" /\ stream \in Whole(Numerals)
    /\ buffer = <<>>
    /\ is_complete = FALSE
    /\ NoParse

\* next(stream)
NextTok ==
    /\ ~isinstance(stream, "None")
    /\ ~Hung
    /\ \E pulled \in {__next__(stream)} :
           /\ stream' = pulled.stream
           /\ call' = [name |-> "__next__", ret |-> pulled.ret, calls |-> 1]
           /\ emitted' = IF isinstance(pulled.ret, "Token")
                         THEN Append(emitted, pulled.ret) ELSE emitted
    /\ UNCHANGED <<buffer, is_complete, source, RADIX_PT, pvars>>

NextLex == NextTok

SpecLex == InitLex /\ [][NextLex]_vars

(***************************************************************************)
(* Notions the properties are stated with.                                 *)
(***************************************************************************)
Done == pc = "done"
Succeeded == Done /\ isinstance(result, "list")

RECURSIVE Labels(_), Leaves(_), LeavesOfAll(_), CountLabel(_, _), SumCount(_, _)

\* the labels of the trees of a token or tree
Labels(o) ==
    IF isinstance(o, "Token") THEN {}
    ELSE {o.label} \cup UNION {Labels(o.children[i]) : i \in DOMAIN o.children}

\* the tokens of a token or tree, left to right
Leaves(o) == IF isinstance(o, "Token") THEN <<o>> ELSE LeavesOfAll(o.children)
LeavesOfAll(os) == IF os = <<>> THEN <<>> ELSE Leaves(Head(os)) \o LeavesOfAll(Tail(os))

\* the number of trees labelled l in a token or tree
CountLabel(o, l) ==
    IF isinstance(o, "Token") THEN 0
    ELSE (IF o.label = l THEN 1 ELSE 0) + SumCount(o.children, l)
SumCount(os, l) == IF os = <<>> THEN 0 ELSE CountLabel(Head(os), l) + SumCount(Tail(os), l)

Openers == {"(", "[", "{"}
Closers == {")", "]", "}"}
IsOpener(tok) == tok.kind = "symbol" /\ tok.value \in Openers
IsCloser(tok) == tok.kind = "symbol" /\ tok.value \in Closers

\* tok2 starts in the column right after tok1, on the same line
RightAfter(tok1, tok2) == tok2.line = tok1.line /\ tok2.column = tok1.column + 1

\* The shape "x A y B z": three operands, the operators A and B spelled between
\* them (nothing for application, one symbol, or two symbols written together),
\* and at most one pair of delimiters, around x A y or around y B z.
OperandPos(s) == {i \in DOMAIN s : s[i].kind # "symbol"}
DelimPos(s) == {i \in DOMAIN s : IsOpener(s[i]) \/ IsCloser(s[i])}
Least(S) == CHOOSE i \in S : \A j \in S : i <= j
Most(S) == CHOOSE i \in S : \A j \in S : j <= i

\* the spelling written at the positions T of s, "?" when it is none
Spelling(s, T) ==
    IF T = {} THEN NoSym
    ELSE IF Cardinality(T) = 1 THEN s[Least(T)].value
    ELSE IF Cardinality(T) = 2 /\ Most(T) = Least(T) + 1
            /\ RightAfter(s[Least(T)], s[Most(T)])
    THEN s[Least(T)].value \o s[Most(T)].value
    ELSE "?"

\* "bare", "left" (x A y is wrapped), "right" (y B z is wrapped) or "none"
ChainShape(s) ==
    IF Cardinality(OperandPos(s)) # 3 THEN "none"
    ELSE LET w1 == Least(OperandPos(s))
             w3 == Most(OperandPos(s))
             w2 == Least(OperandPos(s) \ {w1})
             D == DelimPos(s)
         IN  IF D = {} /\ w1 = 1 /\ w3 = Len(s) THEN "bare"
             ELSE IF /\ D = {1, w2 + 1} /\ w1 = 2 /\ w3 = Len(s)
                     /\ IsOpener(s[1]) /\ s[w2 + 1].value = corresponding[s[1].value]
             THEN "left"
             ELSE IF /\ w1 = 1 /\ w3 = Len(s) - 1 /\ D = {w2 - 1, Len(s)}
                     /\ IsOpener(s[w2 - 1])
                     /\ s[Len(s)].value = corresponding[s[w2 - 1].value]
             THEN "right"
             ELSE "none"

ChainX(s) == s[Least(OperandPos(s))]
ChainZ(s) == s[Most(OperandPos(s))]
ChainY(s) == s[Least(OperandPos(s) \ {Least(OperandPos(s))})]
ChainA(s) ==
    Spelling(s, {i \in DOMAIN s : /\ i > Least(OperandPos(s))
                                   /\ i < Least(OperandPos(s) \ {Least(OperandPos(s))})
                                   /\ i \notin DelimPos(s)})
ChainB(s) ==
    Spelling(s, {i \in DOMAIN s : /\ i > Least(OperandPos(s) \ {Least(OperandPos(s))})
                                   /\ i < Most(OperandPos(s))
                                   /\ i \notin DelimPos(s)})

\* x A y B z with binary operators A and B
IsChain(s, shape) ==
    /\ ChainShape(s) = shape
    /\ ChainA(s) \in DOMAIN binary_ops
    /\ ChainB(s) \in DOMAIN binary_ops

Rank(sym) == binary_ops[sym].precedence
Tag(sym) == binary_ops[sym].name

\* A[A'[x, y], z] and A[x, A'[y, z]]
GroupLeft(s) ==
    ParseTree(Tag(ChainB(s)), <<ParseTree(Tag(ChainA(s)), <<ChainX(s), ChainY(s)>>), ChainZ(s)>>)
GroupRight(s) ==
    ParseTree(Tag(ChainA(s)), <<ChainX(s), ParseTree(Tag(ChainB(s)), <<ChainY(s), ChainZ(s)>>)>>)

(***************************************************************************)
(* C1: parse returns a parse-tree result or a ParseFailure for every       *)
(* finite token sequence, and never ends in an uncaught fault.             *)
(***************************************************************************)
C1_TreeOrFailure ==
    Done => (isinstance(result, "list") \/ isinstance(result, "ParseFailure"))

(***************************************************************************)
(* C2: the loosest level of the table has rank 0 and each tighter level    *)
(* one more; in x A y B z with binary operators of different rank the      *)
(* operator of higher rank is the deeper subtree.                          *)
(***************************************************************************)
\* the entry the tables hold for the spelling at a place of the table
EntryAt(k, j) ==
    LET sym == OPERATORS[k].ops[j][1]
    IN  IF OPERATORS[k].assoc = "prefix" THEN prefix_ops[sym]
        ELSE IF OPERATORS[k].assoc = "postfix" THEN postfix_ops[sym]
        ELSE binary_ops[sym]

RanksByLevel ==
    \A k \in DOMAIN OPERATORS : \A j \in DOMAIN OPERATORS[k].ops :
        EntryAt(k, j).precedence = Len(OPERATORS) - k

C2_HigherRankDeeper ==
    /\ RanksByLevel
    /\ (Done /\ IsChain(input, "bare") /\ Rank(ChainA(input)) # Rank(ChainB(input)))
        => result = List(<<IF Rank(ChainA(input)) > Rank(ChainB(input))
                           THEN GroupLeft(input) ELSE GroupRight(input)>>)

\* x * y + z has been parsed as plus2[mul2[x, y], z]
C2_Witness ==
    /\ Done /\ IsChain(input, "bare")
    /\ ChainA(input) = "*" /\ ChainB(input) = "+"
    /\ result = List(<<ParseTree("plus2",
                         <<ParseTree("mul2", <<input[1], input[3]>>), input[5]>>)>>)

(***************************************************************************)
(* C3: in x A y B z with binary operators of equal rank, left-associative  *)
(* operators group to the left, A[A[x, y], z], and right-associative ones  *)
(* to the right, A[x, A[y, z]].                                            *)
(***************************************************************************)
C3_Associativity ==
    (Done /\ IsChain(input, "bare") /\ Rank(ChainA(input)) = Rank(ChainB(input)))
        => result = List(<<IF binary_ops[ChainA(input)].rassoc
                           THEN GroupRight(input) ELSE GroupLeft(input)>>)

\* x ^ y ^ z has been parsed as expo2[x, expo2[y, z]]
C3_Witness ==
    /\ Done /\ IsChain(input, "bare")
    /\ ChainA(input) = "^" /\ ChainB(input) = "^"
    /\ result = List(<<ParseTree("expo2",
                         <<input[1], ParseTree("expo2", <<input[3], input[5]>>)>>)>>)

(***************************************************************************)
(* C4: two adjacent primary elements with no operator token between them   *)
(* are combined by the application operator appl2, which binds tighter     *)
(* than the arithmetic binary operators and groups to the left.            *)
(***************************************************************************)
Arithmetic == {"+", "-", "*", "/", "%", "^"}

Appl(f, x) == ParseTree("appl2", <<f, x>>)

C4_Application ==
    /\ (Done /\ Len(input) = 2 /\ OperandPos(input) = {1, 2})
        => result = List(<<Appl(input[1], input[2])>>)
    /\ (Done /\ IsChain(input, "bare"))
        => LET x == ChainX(input)
               y == ChainY(input)
               z == ChainZ(input)
               A == ChainA(input)
               B == ChainB(input)
           IN  /\ (A = NoSym /\ B \in Arithmetic)
                    => result = List(<<ParseTree(Tag(B), <<Appl(x, y), z>>)>>)
               /\ (A \in Arithmetic /\ B = NoSym)
                    => result = List(<<ParseTree(Tag(A), <<x, Appl(y, z)>>)>>)
               /\ (A = NoSym /\ B = NoSym)
                    => result = List(<<Appl(Appl(x, y), z)>>)

\* f x y has been parsed as appl2[appl2[f, x], y]
C4_Witness ==
    /\ Done /\ Len(input) = 3 /\ OperandPos(input) = {1, 2, 3}
    /\ result = List(<<Appl(Appl(input[1], input[2]), input[3])>>)

(***************************************************************************)
(* C5: in a successful parse a parenthesized region is replaced by exactly *)
(* the parse of its interior, grouped as one operand, with no parentheses  *)
(* node and no delimiter token left in the result; a [...] or {...} region *)
(* is replaced by one tree labelled brackets or braces whose only child is *)
(* the parse of its interior; the result is not wrapped in a root node.    *)
(***************************************************************************)
RECURSIVE Subtrees(_)
Subtrees(o) ==
    IF isinstance(o, "Token") THEN {}
    ELSE {o} \cup UNION {Subtrees(o.children[i]) : i \in DOMAIN o.children}

CountValue(s, v) == Cardinality({i \in DOMAIN s : s[i].kind = "symbol" /\ s[i].value = v})

\* the replacement of a region opened by open whose interior parsed as tree
Region(open, tree) ==
    IF open = "(" THEN tree
    ELSE ParseTree(IF open = "[" THEN "brackets" ELSE "braces", <<tree>>)

C5_Delimiters ==
    /\ Succeeded =>
        /\ Len(result.items) = 1
        /\ Labels(result.items[1]) \cap {"parentheses", "root"} = {}
        /\ \A i \in DOMAIN Leaves(result.items[1]) :
              ~IsOpener(Leaves(result.items[1])[i]) /\ ~IsCloser(Leaves(result.items[1])[i])
        /\ CountLabel(result.items[1], "brackets") = CountValue(input, "[")
        /\ CountLabel(result.items[1], "braces") = CountValue(input, "{")
        /\ \A tr \in Subtrees(result.items[1]) :
              tr.label \in {"brackets", "braces"} => Len(tr.children) = 1
    /\ (Done /\ IsChain(input, "left"))
        => result = List(<<ParseTree(Tag(ChainB(input)),
                     <<Region(input[1].value,
                              ParseTree(Tag(ChainA(input)), <<ChainX(input), ChainY(input)>>)),
                       ChainZ(input)>>)>>)
    /\ (Done /\ IsChain(input, "right"))
        => result = List(<<ParseTree(Tag(ChainA(input)),
                     <<ChainX(input),
                       Region(input[Least(DelimPos(input))].value,
                              ParseTree(Tag(ChainB(input)), <<ChainY(input), ChainZ(input)>>))>>)>>)

\* (x + y) * z has been parsed as mul2[plus2[x, y], z]
C5_Witness ==
    /\ Done /\ IsChain(input, "left") /\ input[1].value = "("
    /\ ChainA(input) = "+" /\ ChainB(input) = "*"
    /\ result = List(<<ParseTree("mul2",
                         <<ParseTree("plus2", <<input[2], input[4]>>), input[7]>>)>>)

(***************************************************************************)
(* C6: a closing delimiter met while no opener is pending is reported as   *)
(* an unpaired delimiter with that closing token as highlight; an opener   *)
(* still pending at the end of the scan is reported as an unpaired         *)
(* delimiter with the most recently opened pending opener as highlight;    *)
(* also after earlier pairs have been resolved and spliced.  No tree is    *)
(* returned for a sequence with a stray closer or a pending opener.        *)
(***************************************************************************)
\* openers minus closers among the first k tokens of s
Depth(s, k) ==
    Cardinality({i \in 1 .. k : IsOpener(s[i])}) - Cardinality({i \in 1 .. k : IsCloser(s[i])})

\* the closers of s that close nothing
Stray(s) == {p \in DOMAIN s : IsCloser(s[p]) /\ Depth(s, p - 1) = 0}

\* the openers of s that nothing closes
Pending(s) ==
    {p \in DOMAIN s : IsOpener(s[p]) /\ \A q \in p .. Len(s) : Depth(s, q) > Depth(s, p - 1)}

MetStrayCloser ==
    /\ Done /\ index < Len(seq) /\ Len(stack) = 0
    /\ isinstance(seq[index + 1], "Token") /\ IsCloser(seq[index + 1])

EndedWithPending == Done /\ index >= Len(seq) /\ Len(stack) > 0

C6_Unpaired ==
    /\ MetStrayCloser
        => /\ Stray(input) # {}
           /\ result = ParseFailure("unpaired delimiter", input[Least(Stray(input))])
           /\ result.highlight = seq[index + 1]
    /\ EndedWithPending
        => /\ Pending(input) # {}
           /\ result = ParseFailure("unpaired delimiter", input[Most(Pending(input))])
    /\ (Done /\ (Stray(input) # {} \/ Pending(input) # {})) => ~isinstance(result, "list")

\* a stray closer has been reported after an earlier pair was spliced
C6_Witness ==
    /\ MetStrayCloser
    /\ Len(seq) < Len(input)
    /\ result = ParseFailure("unpaired delimiter", input[Len(input)])

(***************************************************************************)
(* C7: in the fusion pass two neighbouring symbol tokens are replaced by   *)
(* one symbol token (text and value the concatenation, line and column of  *)
(* the first) exactly when they are on the same line, one column apart,    *)
(* and their concatenation is a registered multi-character operator;       *)
(* otherwise they stay two separate unchanged tokens.                      *)
(***************************************************************************)
\* the loop of the pass is over and the placeholders are still in place
FuseLoopDone == pc = "fuse" /\ index >= Len(seq) - 1

BothSymbols(i) == input[i].kind = "symbol" /\ input[i + 1].kind = "symbol"

Fusible(i) ==
    /\ input[i + 1].line = input[i].line
    /\ input[i + 1].column - input[i].column \in {-1, 1}
    /\ (input[i].value \o input[i + 1].value) \in multichar_ops

\* the tokens at i and i+1 have been replaced by the one fused token
PairFused(i) ==
    /\ i \in 1 .. (Len(input) - 1)
    /\ seq[i + 1] = None
    /\ seq[i] = Token(input[i].value \o input[i + 1].value,
                      input[i].value \o input[i + 1].value,
                      "symbol", input[i].line, input[i].column)

PairKept(i) == seq[i] = input[i] /\ seq[i + 1] = input[i + 1]

\* the claim as stated
C7_FusedExactlyWhenFusible ==
    FuseLoopDone =>
        \A i \in 1 .. (Len(input) - 1) :
            BothSymbols(i) => /\ Fusible(i) => PairFused(i)
                              /\ ~Fusible(i) => PairKept(i)

\* amended: ... and the first of the two has not been fused with the token
\* before it; a token that takes part in no fusion is unchanged
C7_FusedWhenFusibleAndFree ==
    FuseLoopDone =>
        /\ Len(seq) = Len(input)
        /\ \A i \in 1 .. (Len(input) - 1) :
              PairFused(i) <=> (BothSymbols(i) /\ Fusible(i) /\ ~PairFused(i - 1))
        /\ \A i \in 1 .. Len(input) :
              (~PairFused(i) /\ ~PairFused(i - 1)) => seq[i] = input[i]

\* === : the first two tokens are fused, the fusible second pair is not
C7_Witness ==
    /\ FuseLoopDone /\ Len(input) = 3
    /\ PairFused(1)
    /\ BothSymbols(2) /\ Fusible(2) /\ PairKept(2) = FALSE /\ seq[3] = input[3]

(***************************************************************************)
(* The token buffer: what the tokenizer produces, pull after pull.         *)
(***************************************************************************)
RECURSIVE Produces(_, _), ProducesFrom(_, _)
\* the outcome of the k-th successive pull from the tokenizer st, or the
\* first outcome that is no token (end-of-input, a fatal error, a supplier
\* that does not return) when that comes before
ProducesFrom(pulled, k) ==
    IF k <= 1 \/ ~isinstance(pulled.ret, "Token") THEN pulled
    ELSE Produces(pulled.stream, k - 1)

Produces(st, k) == ProducesFrom(__next__(st), k)

RECURSIVE Remaining(_), RemainingFrom(_)
\* the tokens the tokenizer st still produces, in order
RemainingFrom(pulled) ==
    IF isinstance(pulled.ret, "Token") THEN <<pulled.ret>> \o Remaining(pulled.stream)
    ELSE <<>>

Remaining(st) == RemainingFrom(__next__(st))

\* what the pulls from st end with: None at end-of-input, or the fatal error
Ends(st) == Produces(st, Len(Remaining(st)) + 1).ret

\* the pulls a loop of m iterations makes on st: it stops after the first
\* pull that yields no token
PullsOf(st, m) == IF m <= Len(Remaining(st)) THEN m ELSE Len(Remaining(st)) + 1

\* the last call was at(i) with i >= 0, and it came back
IsAt(c) == c.name = "__getitem__" /\ c.idx >= 0 /\ ~isinstance(c.ret, "Blocked")

Failed(c) == isinstance(c.ret, "IndexError") \/ isinstance(c.ret, "Exception")

IsPrefix(s, u) == Len(s) <= Len(u) /\ SubSeq(u, 1, Len(s)) = s

\* i + 1 - n, none when i < n
MissingTokens(i, n) == IF i < n THEN 0 ELSE i + 1 - n

\* the parts of C8 that hold as stated: at(i) returns the (i+1)-th token the
\* tokenizer produces, the cache is the tokens produced so far, in order,
\* the tokenizer goes on after them, and the cache only grows
AtReturnsPulled ==
    /\ IsAt(call) /\ isinstance(call.ret, "Token")
          => call.ret = Produces(source, call.idx + 1).ret
    /\ IsAt(call) /\ isinstance(Produces(source, call.idx + 1).ret, "Token")
          => call.ret = Produces(source, call.idx + 1).ret
    /\ \A j \in 1 .. Len(buffer) : buffer[j] = Produces(source, j).ret
    /\ ~Hung => \A k \in 1 .. 2 :
                   Produces(stream, k).ret = Produces(source, Len(buffer) + k).ret

CacheOnlyGrows == IsPrefix(buffer, buffer')

\* C8: for any sequence of at(i) calls with i >= 0, at(i) returns the token
\* the (i+1)-th successive pull produces; cached tokens are never pulled
\* again or changed; an unsealed buffer with n cached tokens pulls exactly
\* the i+1-n missing tokens (none when i < n) unless the tokenizer reports
\* end-of-input first; and when fewer than i+1 tokens exist at(i) fails and
\* the buffer is sealed.
C8_AtPullsMissing ==
    /\ [](/\ AtReturnsPulled
          /\ IsAt(call) /\ ~isinstance(Produces(source, call.idx + 1).ret, "Token")
                => Failed(call) /\ is_complete)
    /\ [][/\ CacheOnlyGrows
          /\ IsAt(call') /\ ~is_complete
                => \/ call'.calls = MissingTokens(call'.idx, Len(buffer))
                   \/ /\ is_complete'
                      /\ call'.calls <= MissingTokens(call'.idx, Len(buffer))]_vars

\* C8, amended: as C8, but the tokenizer may also abort a pull with a fatal
\* lexical error: then at(i) stops pulling and fails with that error, the
\* tokens pulled before it stay cached, and the buffer is not sealed; it is
\* sealed when the pulls ended with end-of-input.
C8_AtPullsMissingOrAborts ==
    /\ [](/\ AtReturnsPulled
          /\ IsAt(call) /\ isinstance(Produces(source, call.idx + 1).ret, "None")
                => isinstance(call.ret, "IndexError") /\ is_complete
          /\ IsAt(call) /\ isinstance(Produces(source, call.idx + 1).ret, "Exception")
                => call.ret = Produces(source, call.idx + 1).ret /\ ~is_complete)
    /\ [][/\ CacheOnlyGrows
          /\ IsAt(call') /\ ~is_complete
                => /\ call'.calls = PullsOf(stream, MissingTokens(call'.idx, Len(buffer)))
                   /\ \/ call'.calls = MissingTokens(call'.idx, Len(buffer))
                      \/ is_complete'
                      \/ isinstance(call'.ret, "Exception")]_vars

\* at(2) on a buffer with one cached token pulled the two missing tokens
C8_Witness ==
    /\ IsAt(call)
    /\ call.idx = 2
    /\ call.calls = 2
    /\ isinstance(call.ret, "Token")
    /\ Len(buffer) = 3

\* C9: length() fails in every state in which completion has not been
\* observed and succeeds in every state after it; once the buffer is sealed
\* (the tokenizer yielded no further token, or drain finished) the seal never
\* reverts, the cached sequence and its length never change again, and no
\* later at(i) or length() call pulls from the tokenizer.
C9_LengthOnceSealed ==
    /\ [](/\ call.name = "__len__"
                => IF is_complete THEN call.ret = PyInt(Len(buffer))
                   ELSE isinstance(call.ret, "Exception")
          /\ is_complete => isinstance(Produces(source, Len(buffer) + 1).ret, "None"))
    /\ [][/\ call'.name = "__len__" => UNCHANGED <<stream, buffer, is_complete>>
          /\ is_complete => is_complete' /\ buffer' = buffer
          /\ is_complete /\ call'.name \in {"__getitem__", "__len__"}
                => call'.calls = 0 /\ stream' = stream]_vars

\* length() answered on a sealed buffer of two or more tokens
C9_Witness ==
    /\ call.name = "__len__"
    /\ is_complete
    /\ call.ret = PyInt(Len(buffer))
    /\ Len(buffer) >= 2

\* drain() is refused: an error, and nothing of the buffer or the tokenizer
\* has changed
DrainRefused ==
    /\ isinstance(call'.ret, "Exception")
    /\ call'.calls = 0
    /\ UNCHANGED <<stream, buffer, is_complete>>

\* C10: drain() on a buffer whose tokenizer has a continuation supplier is
\* rejected with an error and leaves the cached tokens, the seal flag and the
\* tokenizer state unchanged; on a buffer whose tokenizer has no supplier,
\* drain() pulls every remaining token in order, terminates, and leaves the
\* buffer sealed.
C10_DrainSeals ==
    [][call'.name = "complete"
          => IF HasMore(stream) THEN DrainRefused
             ELSE /\ buffer' = buffer \o Remaining(stream)
                  /\ isinstance(call'.ret, "None")
                  /\ is_complete']_vars

\* C10, amended: as C10, but with no supplier drain() pulls the remaining
\* tokens up to end-of-input or the first fatal lexical error; at
\* end-of-input it returns and leaves the buffer sealed, on a fatal error it
\* fails with that error, keeps the tokens pulled before it, and leaves the
\* seal as it was.
C10_DrainSealsOrAborts ==
    [][call'.name = "complete"
          => IF HasMore(stream) THEN DrainRefused
             ELSE /\ buffer' = buffer \o Remaining(stream)
                  /\ call'.ret = Ends(stream)
                  /\ call'.calls = Len(Remaining(stream)) + 1
                  /\ IF isinstance(Ends(stream), "None") THEN is_complete'
                     ELSE /\ isinstance(Ends(stream), "Exception")
                          /\ is_complete' = is_complete]_vars

\* drain() on a buffer with no supplier pulled two or more tokens and sealed it
C10_Witness ==
    /\ call.name = "complete"
    /\ ~HasMore(stream)
    /\ isinstance(call.ret, "None")
    /\ is_complete
    /\ call.calls >= 3
    /\ Len(buffer) >= 2

(***************************************************************************)
(* The tokenizer: what it has consumed of its log.                         *)
(***************************************************************************)
IsSuffix(s, u) == Len(s) <= Len(u) /\ SubSeq(u, Len(u) - Len(s) + 1, Len(u)) = s

\* the log without the text still buffered
Consumed(st) == SubSeq(st.log, 1, Len(st.log) - Len(st.text))

RECURSIVE Flatten(_)
Flatten(chunks) == IF chunks = <<>> THEN <<>> ELSE Head(chunks) \o Flatten(Tail(chunks))

\* the chunks the supplier has returned since the tokenizer was constructed
Delivered ==
    IF HasMore(source)
    THEN SubSeq(source.more.returns, 1,
                Len(source.more.returns) - Len(stream.more.returns))
    ELSE <<>>

\* the characters of a comment at the start of cs: up to the next newline
CommentLen(cs) == IF "\n" \in Range(cs) THEN IndexNewline(cs) ELSE Len(cs)

RECURSIVE IsGap(_)
\* cs is discarded text: whitespace and comments only
IsGap(cs) ==
    \/ cs = <<>>
    \/ Head(cs) \in Whitespace /\ IsGap(Tail(cs))
    \/ Head(cs) = COMMENT /\ IsGap(Drop(cs, CommentLen(cs)))

RECURSIVE Pieces(_, _)
\* cs is the texts of the tokens toks, in order, with discarded text before,
\* between and after them
Pieces(cs, toks) ==
    IF toks = <<>> THEN IsGap(cs)
    ELSE \E k \in 0 .. Len(cs) - Len(Head(toks).text) :
             /\ IsGap(Take(cs, k))
             /\ Str(SubSeq(cs, k + 1, k + Len(Head(toks).text))) = Head(toks).text
             /\ Pieces(Drop(cs, k + Len(Head(toks).text)), Tail(toks))

\* C11: after any sequence of next-token calls, with or without chunks
\* delivered by the supplier, the pieces consumed so far (the emitted tokens'
\* texts, in order, interleaved with the discarded whitespace and comments)
\* followed by the text still buffered are the accumulated log exactly, and
\* the log is the initial text followed by the chunks delivered.
C11_RoundTrip ==
    /\ IsSuffix(stream.text, stream.log)
    /\ Pieces(Consumed(stream), emitted)
    /\ stream.log = source.log \o Flatten(Delivered)

\* two tokens emitted, a comment discarded, a chunk delivered
C11_Witness ==
    /\ Len(emitted) >= 2
    /\ COMMENT \in Range(Consumed(stream))
    /\ Len(Delivered) >= 1
    /\ call.name = "__next__"

\* the 1-based line and column of the character that follows before in a text
LineAfter(before) == 1 + Cardinality({i \in DOMAIN before : before[i] = "\n"})
ColumnAfter(before) ==
    1 + Cardinality({i \in DOMAIN before :
                        \A j \in DOMAIN before : before[j] = "\n" => j < i})

RECURSIVE Placed(_, _, _)
\* as Pieces, for the text cs that follows before in the log, and each token
\* carries the line and column of its first character
Placed(before, cs, toks) ==
    IF toks = <<>> THEN IsGap(cs)
    ELSE \E k \in 0 .. Len(cs) - Len(Head(toks).text) :
             /\ IsGap(Take(cs, k))
             /\ Str(SubSeq(cs, k + 1, k + Len(Head(toks).text))) = Head(toks).text
             /\ Head(toks).line = LineAfter(before \o Take(cs, k))
             /\ Head(toks).column = ColumnAfter(before \o Take(cs, k))
             /\ Placed(before \o Take(cs, k + Len(Head(toks).text)),
                       Drop(cs, k + Len(Head(toks).text)), Tail(toks))

\* C12: every emitted token carries the 1-based line and column of its first
\* character in the accumulated log, and after every call the tokenizer's
\* line and column are the position of the first unconsumed character (line
\* = 1 + newlines consumed, column = 1 + characters consumed since the last
\* newline), for tokens, discarded text, strings over several lines and
\* however the supplier splits the text.
C12_Positions ==
    /\ stream.line = LineAfter(Consumed(stream))
    /\ stream.column = ColumnAfter(Consumed(stream))
    /\ Placed(<<>>, Consumed(stream), emitted)

\* a token that is no newline token was emitted at line 2 or later, past
\* column 1, and a string over two lines was emitted
C12_Witness ==
    /\ call.name = "__next__"
    /\ \E i \in DOMAIN emitted :
           /\ emitted[i].kind # "newline"
           /\ emitted[i].line >= 2
           /\ emitted[i].column >= 2
    /\ stream.line >= 2

\* a string token spanning two lines left the tokenizer on the second line
C12_WitnessString ==
    /\ call.name = "__next__"
    /\ isinstance(call.ret, "Token")
    /\ call.ret.kind = "string"
    /\ call.ret.line = 1
    /\ stream.line = 2

IsNewline(tok) == isinstance(tok, "Token") /\ tok.kind = "newline"

LastIsNewline(toks) == toks # <<>> /\ IsNewline(toks[Len(toks)])

\* what the call of this step consumed
ConsumedNow == SubSeq(Consumed(stream'), Len(Consumed(stream)) + 1, Len(Consumed(stream')))

\* what the call of this step discarded before the token it returned, or
\* discarded in all when it returned no token
DiscardedNow ==
    IF isinstance(call'.ret, "Token")
    THEN Take(ConsumedNow, Len(ConsumedNow) - Len(call'.ret.text))
    ELSE ConsumedNow

NoTwoNewlines ==
    \A i \in 1 .. Len(emitted) - 1 : ~(IsNewline(emitted[i]) /\ IsNewline(emitted[i + 1]))

\* C13: with newline emission enabled, a matched whitespace run produces a
\* newline token, positioned at the run's start, exactly when the run holds
\* a newline and the previously emitted token, if any, is no newline token;
\* so the emitted tokens never hold two newline tokens in a row, also when
\* blank lines are separated by comment lines only or come in separate
\* chunks.  (A newline in discarded text lies in a whitespace run: a comment
\* ends before the newline.)
C13_NewlineTokens ==
    /\ [](EMIT_NEWLINES /\ NoTwoNewlines)
    /\ [][call'.name = "__next__"
            => /\ IsNewline(call'.ret)
                    => /\ ~LastIsNewline(emitted)
                       /\ "\n" \notin Range(DiscardedNow)
                       /\ Str(Drop(ConsumedNow, Len(DiscardedNow))) = call'.ret.text
                       /\ "\n" \in Range(Drop(ConsumedNow, Len(DiscardedNow)))
                       /\ Range(Drop(ConsumedNow, Len(DiscardedNow))) \subseteq Whitespace
                       /\ call'.ret.line = LineAfter(Consumed(stream) \o DiscardedNow)
                       /\ call'.ret.column = ColumnAfter(Consumed(stream) \o DiscardedNow)
               /\ ~IsNewline(call'.ret) /\ "\n" \in Range(DiscardedNow)
                    => LastIsNewline(emitted)]_vars

\* after a newline token a comment line and a further blank line were
\* discarded without a second newline token
C13_Witness ==
    /\ call.name = "__next__"
    /\ ~isinstance(call.ret, "Token")
    /\ LastIsNewline(emitted)
    /\ COMMENT \in Range(Consumed(stream))
    /\ LineAfter(Consumed(stream)) >= 3

\* the characters of the token the last call returned: the end of what
\* has been consumed
Lexeme == SubSeq(Consumed(stream), Len(Consumed(stream)) - Len(call.ret.text) + 1,
                 Len(Consumed(stream)))

IsNumeric(tok) == isinstance(tok, "Token") /\ tok.kind = "numeric"

RECURSIVE Decimal(_, _)
\* the number the digits spell after the number so far, read left to right
Decimal(sofar, digits) ==
    IF digits = <<>> THEN sofar
    ELSE Decimal(10 * sofar + DigitValue(Head(digits)), Tail(digits))

\* the digits of a literal, and those after its "."
DigitsOf(lit) == SelectSeq(lit, LAMBDA c : c \in Digits)
PlacesOf(lit) ==
    Cardinality({i \in DOMAIN lit : lit[i] \in Digits /\ \E j \in 1 .. i : lit[j] = "."})

\* what the literal lit decodes to with its separators removed
Decoded(lit) ==
    IF "." \in Range(lit) THEN Float(Decimal(0, DigitsOf(lit)), PlacesOf(lit))
    ELSE PyInt(Decimal(0, DigitsOf(lit)))

\* C14: a numeric token's value is decoded from its literal with all
\* grouping separators removed: a floating-point value exactly when the
\* literal holds a radix point, an integer otherwise (1'000.5 gives float
\* 1000.5, 1'000 gives integer 1000); with no radix point configured
\* (RADIX_PT empty) only integer literals are matched and each is decoded as
\* an integer.
C14_NumericValues ==
    call.name = "__next__" /\ IsNumeric(call.ret)
        => /\ call.ret.value = Decoded(Lexeme)
           /\ Range(Lexeme) \subseteq Digits \cup {GRP_SEPR, "."}
           /\ RADIX_PT = "" => /\ "." \notin Range(Lexeme)
                               /\ isinstance(call.ret.value, "int")

\* as shipped (RADIX_PT the full stop) the values are as C14 says
C14_AsShipped == RADIX_PT = "." => C14_NumericValues

\* 1'000.5 was decoded as shipped; 1'000 was decoded with RADIX_PT empty
C14_WitnessFloat ==
    /\ RADIX_PT = "."
    /\ call.name = "__next__" /\ IsNumeric(call.ret)
    /\ call.ret.text = "1'000.5"
    /\ call.ret.value = Float(10005, 1)

C14_WitnessEmpty ==
    /\ RADIX_PT = ""
    /\ call.name = "__next__" /\ IsNumeric(call.ret)
    /\ call.ret.text = "1'000"

(***************************************************************************)
(* String literals, read off the text as a whole: cs is text that starts   *)
(* with the string delimiter.                                              *)
(***************************************************************************)
RECURSIVE EscapesBefore(_, _)
\* the number of escape characters in a row that end just before cs[p]
EscapesBefore(cs, p) ==
    IF p > 2 /\ cs[p - 1] = ESCAPE THEN 1 + EscapesBefore(cs, p - 1) ELSE 0

\* cs[p] is not the second character of an escape pair
Unescaped(cs, p) == EscapesBefore(cs, p) % 2 = 0

\* cs[p] is the delimiter that closes the literal opened at cs[1]
Closes(cs, p) == p >= 2 /\ p <= Len(cs) /\ cs[p] = STR_DELIM /\ Unescaped(cs, p)

\* cs[p] is an escape character followed by a character outside the table
BadEscape(cs, p) ==
    /\ p >= 2 /\ p < Len(cs)
    /\ cs[p] = ESCAPE /\ Unescaped(cs, p)
    /\ cs[p + 1] \notin {ESCAPE, STR_DELIM, "n", "r", "e"}

\* the first place where the literal closes or an escape is unknown, 0 if none
FirstEvent(cs) ==
    IF \E p \in 2 .. Len(cs) : Closes(cs, p) \/ BadEscape(cs, p)
    THEN CHOOSE p \in 2 .. Len(cs) :
             /\ Closes(cs, p) \/ BadEscape(cs, p)
             /\ \A r \in 2 .. p - 1 : ~(Closes(cs, r) \/ BadEscape(cs, r))
    ELSE 0

\* what the character cs[p] inside a literal contributes to its value
Contributes(cs, p) ==
    IF ~Unescaped(cs, p)
    THEN (IF cs[p] = "n" THEN "\n" ELSE IF cs[p] = "r" THEN "\r"
          ELSE IF cs[p] = "e" THEN ESC ELSE cs[p])
    ELSE IF cs[p] = ESCAPE THEN "" ELSE cs[p]

RECURSIVE Contents(_, _, _)
\* the value of the literal cs[1 .. last], from cs[p] on
Contents(cs, p, last) ==
    IF p >= last THEN "" ELSE Contributes(cs, p) \o Contents(cs, p + 1, last)

\* the text the call of this step has before it: buffered, or to be returned
\* by the supplier
Ahead ==
    stream.text \o (IF HasMore(stream) THEN Flatten(stream.more.returns) ELSE <<>>)

\* the call of this step meets a string literal first
AtString == call'.name = "__next__" /\ Ahead # <<>> /\ Head(Ahead) = STR_DELIM

IsString(tok) == isinstance(tok, "Token") /\ tok.kind = "string"

\* C15: scanning a string literal, complete in the buffered text or
\* completed by chunks of the supplier that split it anywhere (also between
\* an escape character and the escaped character), yields one string token
\* whose text is the literal verbatim and whose value is its contents with
\* every escape pair replaced through the escape table, no escape marker or
\* delimiter of the literal remaining; an escape character followed by a
\* character outside the table, or input ending inside the literal with no
\* supplier, aborts with a fatal error naming the literal's start line and
\* column and emits no token.
C15_StringLiterals ==
    [][/\ AtString /\ FirstEvent(Ahead) > 0 /\ Closes(Ahead, FirstEvent(Ahead))
            => /\ call'.ret = Token(Str(Take(Ahead, FirstEvent(Ahead))),
                                    Contents(Ahead, 2, FirstEvent(Ahead)),
                                    "string", stream.line, stream.column)
               /\ emitted' = Append(emitted, call'.ret)
               /\ Consumed(stream') = Consumed(stream) \o Take(Ahead, FirstEvent(Ahead))
       /\ AtString /\ FirstEvent(Ahead) > 0 /\ BadEscape(Ahead, FirstEvent(Ahead))
            => /\ call'.ret = Exception(Located("unknown escape sequence",
                                                stream.line, stream.column))
               /\ emitted' = emitted
       /\ AtString /\ FirstEvent(Ahead) = 0 /\ ~HasMore(stream)
            => /\ call'.ret = Exception(Located("unterminated string",
                                                stream.line, stream.column))
               /\ emitted' = emitted
       /\ call'.name = "__next__" /\ IsString(call'.ret)
            => /\ Str(Lexeme') = call'.ret.text
               /\ Head(Lexeme') = STR_DELIM
               /\ FirstEvent(Lexeme') = Len(Lexeme')
               /\ Closes(Lexeme', Len(Lexeme'))
               /\ call'.ret.value = Contents(Lexeme', 2, Len(Lexeme'))]_vars

\* a literal with an escape pair was completed by the supplier between the
\* escape character and the escaped character
C15_Witness ==
    /\ call.name = "__next__"
    /\ IsString(call.ret)
    /\ HasMore(source)
    /\ Len(source.text) >= 2
    /\ source.text[Len(source.text)] = ESCAPE
    /\ Unescaped(source.text, Len(source.text))
    /\ Len(source.log) < Len(stream.log)
    /\ call.ret.value \in {"\n", "a\n", "\"", "\\"}

\* the fatal errors: an unknown escape in a literal completed by the
\* supplier, and a literal on the second line left open
C15_WitnessEscape ==
    /\ call.name = "__next__"
    /\ call.ret = Exception(Located("unknown escape sequence", 1, 1))
    /\ Len(source.log) < Len(stream.log)
    /\ emitted = <<>>

C15_WitnessOpen ==
    /\ call.name = "__next__"
    /\ call.ret = Exception(Located("unterminated string", 2, 1))

\* ---- context labels of a failure (parser.py 105-120, 222-234, 285-290) ----

\* parse stopped at a closing delimiter because the interior it had just
\* handed to parse_interior failed: the failure is its result
FailedInInterior ==
    /\ Done
    /\ isinstance(result, "ParseFailure")
    /\ index < Len(seq)
    /\ Len(stack) > 0
    /\ result.message \notin {"unpaired delimiter", "mismatched or unpaired delimiter"}

\* the kinds of the brackets open around the closing delimiter parse stopped
\* at, innermost first
RECURSIVE EnclosingKinds(_)
EnclosingKinds(stk) ==
    IF stk = <<>> THEN <<>>
    ELSE <<delim_name[top(stk)[2]]>> \o EnclosingKinds(SubSeq(stk, 1, Len(stk) - 1))

\* C16: a failure produced while parsing the interior of a bracket pair
\* reaches the caller of parse carrying at least one context label, the
\* first of them the kind of the bracket pair it occurred within
C16_FailureIsLabelled ==
    FailedInInterior =>
        /\ Len(result.labels) >= 1
        /\ result.labels[1] = EnclosingKinds(stack)[1]

\* a failure from a bracket interior that reached the caller with no label
C16_Unlabelled ==
    /\ FailedInInterior
    /\ result.labels = <<>>
    /\ Len(stack) = 2

\* ---- failures short-circuit (parser.py 164-171, 199-207, 215-227, 285-290, 304) ----

IsFailure(o) == isinstance(o, "ParseFailure")

\* the scan stands at the closing delimiter that matches the pending opener
AtClose ==
    /\ pc = "scan"
    /\ index < Len(seq)
    /\ isinstance(seq[index + 1], "Token")
    /\ IsCloser(seq[index + 1])
    /\ Len(stack) > 0
    /\ seq[index + 1].value = top(stack)[2]

\* the scan is over and nothing is pending
AtEnd == pc = "scan" /\ index >= Len(seq) /\ stack = <<>>

\* the elements parse hands to parse_interior in its next step, and as what
Interior == IF AtEnd THEN seq ELSE SubSeq(seq, top(stack)[1] + 2, index)
Container == IF AtEnd THEN "root" ELSE delim_name[seq[index + 1].value]

\* the recursive call after a prefix operator at the start of s
PrefixCall(s) == _parse_operators(From(s, 1), prefix_ops[s[1].value].precedence)

\* the loop of _parse_operators(s, m), standing at index i, makes a recursive
\* call for the right-hand side of the element at i
LoopCalls(s, m, i) ==
    /\ i < Len(s)
    /\ ~(IsSymbol(s[i + 1]) /\ s[i + 1].value \in DOMAIN postfix_ops)
    /\ IF IsSymbol(s[i + 1]) /\ s[i + 1].value \in DOMAIN binary_ops
       THEN binary_ops[s[i + 1].value].precedence >= m /\ i + 1 < Len(s)
       ELSE application.precedence >= m

\* that call
LoopCall(s, i) ==
    IF IsSymbol(s[i + 1]) /\ s[i + 1].value \in DOMAIN binary_ops
    THEN _parse_operators(From(s, i + 1), rhs_precedence(binary_ops[s[i + 1].value]))
    ELSE _parse_operators(From(s, i), rhs_precedence(application))

\* in every call of the precedence parser on a tail of s, a recursive call that
\* fails makes the call return that failure
Unwinds(s) ==
    \A k \in 0 .. Len(s) - 1 : \A m \in 0 .. Len(OPERATORS) :
        /\ (IsSymbol(s[k + 1]) /\ s[k + 1].value \in DOMAIN prefix_ops
            /\ IsFailure(PrefixCall(From(s, k))))
               => _parse_operators(From(s, k), m) = PrefixCall(From(s, k))
        /\ \A i \in 1 .. Len(s) - k - 1 :
              (LoopCalls(From(s, k), m, i) /\ IsFailure(LoopCall(From(s, k), i)))
                 => _parse_loop(From(s, k), m, s[k + 1], i) = LoopCall(From(s, k), i)

\* tokens and trees all the way down
RECURSIVE Intact(_)
Intact(o) ==
    \/ isinstance(o, "Token")
    \/ /\ isinstance(o, "ParseTree")
       /\ \A i \in DOMAIN o.children : Intact(o.children[i])

\* C17: a failure returned by a recursive call of the precedence parser or by
\* the parse of a bracket interior is returned unchanged (same message, same
\* highlight) by every enclosing call: no tree is built around it, nothing is
\* spliced, parse ends with it as its result and scans no further, and a
\* result that is not a failure holds trees and tokens only
C17_ShortCircuit ==
    /\ [][/\ pc # "done"
          /\ (AtClose \/ AtEnd) =>
                /\ Unwinds(Interior)
                /\ IsFailure(_parse_operators(Interior, 0)) =>
                      /\ result' = _parse_operators(Interior, 0)
                      /\ pc' = "done"
                      /\ seq' = seq /\ stack' = stack /\ index' = index]_vars
    /\ [](Succeeded => \A i \in DOMAIN result.items : Intact(result.items[i]))

\* [ x + = ] : the failure of the recursive call for the right-hand side of +
\* inside the brackets is the result of parse
C17_Witness ==
    /\ FailedInInterior
    /\ result.message = "binary operator missing left-hand argument"
    /\ result.highlight = seq[index]
    /\ index - top(stack)[1] > 2

\* ---- a closer that does not match (parser.py 262-283) ----

\* the openers still standing among the first k elements of s: whatever was
\* closed before has been spliced away together with its closer
OpenBefore(s, k) == {p \in 1 .. k : isinstance(s[p], "Token") /\ IsOpener(s[p])}

\* the most recently opened of them
LastOpen(s, k) == CHOOSE p \in OpenBefore(s, k) : \A q \in OpenBefore(s, k) : q <= p

\* the closer written for an opener
CloserOf(open) == IF open = "(" THEN ")" ELSE IF open = "[" THEN "]" ELSE "}"

\* the scan stands at a closing delimiter that is not the closer of the most
\* recently opened pending opener
AtMismatch ==
    /\ pc = "scan"
    /\ index < Len(seq)
    /\ isinstance(seq[index + 1], "Token")
    /\ IsCloser(seq[index + 1])
    /\ OpenBefore(seq, index) # {}
    /\ seq[index + 1].value # CloserOf(seq[LastOpen(seq, index)].value)

\* C18: when the scan meets a closing delimiter that is not the closer of the
\* most recently opened pending opener, parse returns the failure
\* "mismatched or unpaired delimiter" with that closing token as highlight;
\* the interior is not parsed, nothing is spliced and the stack is not popped
C18_Mismatched ==
    [][AtMismatch =>
          /\ result' = ParseFailure("mismatched or unpaired delimiter", seq[index + 1])
          /\ pc' = "done"
          /\ stack' = stack /\ seq' = seq /\ index' = index]_vars

\* ( = ] : the closing bracket is reported, not the operator of the interior
C18_Witness ==
    /\ Done
    /\ Len(input) = 3
    /\ input[1].value = "(" /\ input[2].value = "=" /\ input[3].value = "]"
    /\ result = ParseFailure("mismatched or unpaired delimiter", input[3])
    /\ seq = input /\ index = 2 /\ Len(stack) = 1

\* ---- operators missing an argument (parser.py 162-175, 191-197) ----

IsPrefix_(o) == IsSymbol(o) /\ o.value \in DOMAIN prefix_ops
IsBinary(o) == IsSymbol(o) /\ o.value \in DOMAIN binary_ops
BinaryOnly(o) == IsBinary(o) /\ ~IsPrefix_(o)
PrefixAndBinary(o) == IsBinary(o) /\ IsPrefix_(o)

MissingLeft(op) == ParseFailure("binary operator missing left-hand argument", op)
MissingRight(op) == ParseFailure("binary operator missing right-hand argument", op)

\* a tree, its first child, the first child of that, and so on
RECURSIVE Spine(_)
Spine(o) ==
    IF isinstance(o, "ParseTree") /\ Len(o.children) > 0
    THEN {o} \cup Spine(o.children[1])
    ELSE {o}

\* the tree a prefix operator makes of the parse of its operand
PrefixTree(op, operand) == ParseTree(prefix_ops[op.value].name, <<operand.tree>>)

\* a call on s at minimum precedence m, where s starts with a symbol that is a
\* prefix and a binary operator: not the failure of a missing left-hand
\* argument, and a tree it returns starts with the prefix tree of the operand
TakenAsPrefix(s, m) ==
    /\ _parse_operators(s, m) # MissingLeft(s[1])
    /\ isinstance(_parse_operators(s, m), "Pair") =>
          /\ isinstance(PrefixCall(s), "Pair")
          /\ PrefixTree(s[1], PrefixCall(s)) \in Spine(_parse_operators(s, m).tree)

\* the calls of the precedence parser on the tails of s, at every minimum
\* precedence
ArgumentsChecked(s) ==
    \A k \in 0 .. Len(s) - 1 : \A m \in 0 .. Len(OPERATORS) :
        /\ BinaryOnly(s[k + 1]) => _parse_operators(From(s, k), m) = MissingLeft(s[k + 1])
        /\ PrefixAndBinary(s[k + 1]) => TakenAsPrefix(From(s, k), m)
        /\ (k < Len(s) - 1 /\ IsBinary(s[Len(s)])
            /\ binary_ops[s[Len(s)].value].precedence >= m)
              => _parse_loop(From(s, k), m, s[k + 1], Len(s) - k - 1) = MissingRight(s[Len(s)])

C19_WitnessRight ==
    /\ Done
    /\ Len(input) = 4 /\ input[1].value = "[" /\ input[2].value = "x"
    /\ input[3].value = "+"
    /\ result = MissingRight(input[3])

\* ( + x = ) : the plus sign at the start is the prefix operator of x, and
\* the equals sign has no right-hand argument
C19_WitnessPrefix ==
    /\ Done
    /\ Len(input) = 5 /\ input[2].value = "+" /\ input[3].value = "x"
    /\ result = MissingRight(input[4])

\* ---- the fusion pass (parser.py 242-254) ----

\* the fused token of the input tokens at i and i + 1
FusedToken(i) ==
    Token(input[i].value \o input[i + 1].value, input[i].value \o input[i + 1].value,
          "symbol", input[i].line, input[i].column)

\* the first positions of the pairs one pass from position i on fuses: after
\* the pair at i and i + 1 it goes on at i + 2
RECURSIVE FusedFrom(_)
FusedFrom(i) ==
    IF i >= Len(input) THEN {}
    ELSE IF BothSymbols(i) /\ Fusible(i) THEN {i} \cup FusedFrom(i + 2)
    ELSE FusedFrom(i + 1)

Fusions == FusedFrom(1)

\* the input positions of the tokens that take part in no fusion
Unfused == {i \in DOMAIN input : i \notin Fusions /\ (i - 1) \notin Fusions}

\* the elements of s that are tokens of the input as they were
Originals(s) == SelectSeq(s, LAMBDA e : \E i \in Unfused : e = input[i])

\* the pass has left the first k input tokens behind
PassedOver(k) ==
    /\ \A i \in 1 .. k :
          /\ i \in Fusions => (seq[i] = FusedToken(i) /\ seq[i + 1] = None)
          /\ i \in Unfused => seq[i] = input[i]
    /\ \A i \in (k + 1) .. Len(input) : (i - 1) \notin Fusions => seq[i] = input[i]

\* C20: the fusion pass is one scan from left to right: a step fuses the pair
\* at the index and goes on two positions further, or leaves the sequence alone
\* and goes on one position further; no token takes part in two fusions and a
\* fused token is not fused again; the sequence handed on to the delimiter
\* scan is shorter than the input by the number of fusions, and the tokens
\* that took part in no fusion are in it as they were and in their order;
\* three adjacent = become == followed by =
C20_FusionPass ==
    /\ [](pc = "fuse" =>
            /\ Len(seq) = Len(input)
            /\ PassedOver(index)
            /\ \A i \in Fusions : (i + 1) \notin Fusions /\ (i - 1) \notin Fusions)
    /\ [][pc = "fuse" =>
            /\ (pc' = "fuse" /\ seq' # seq)
                  => /\ index' = index + 2
                     /\ (index + 1) \in Fusions
                     /\ seq' = [seq EXCEPT ![index + 1] = FusedToken(index + 1),
                                           ![index + 2] = None]
            /\ (pc' = "fuse" /\ seq' = seq) => index' = index + 1
            /\ pc' = "scan"
                  => /\ Len(seq') = Len(input) - Cardinality(Fusions)
                     /\ \A i \in DOMAIN seq' : isinstance(seq'[i], "Token")
                     /\ Originals(seq') = SelectSeq(input, LAMBDA e : e \in {input[i] : i \in Unfused})
                     /\ \A i \in Fusions :
                           \E j \in DOMAIN seq' : seq'[j] = FusedToken(i)]_vars

\* === written together has become == and = for the delimiter scan
C20_Witness ==
    /\ pc = "scan" /\ index = 0
    /\ Len(input) = 3
    /\ \A i \in 1 .. 3 : input[i].value = "=" /\ input[i].line = 1 /\ input[i].column = i
    /\ seq = <<Token("==", "==", "symbol", 1, 1), input[3]>>

\* ---- splicing a resolved pair (parser.py 262-297) ----

\* the position of the opener the closing delimiter at the index resolves
OpenerAt == LastOpen(seq, index)

\* the stack entry of the opener standing at position p of s (0-based in the
\* entry, as the code counts)
EntryOf(s, p) == <<p - 1, CloserOf(s[p].value)>>

\* the positions of the stack grow from the bottom to the top, and every entry
\* is the entry of an opener of the sequence, left of the index
StackSound ==
    /\ \A i \in 1 .. Len(stack) - 1 : stack[i][1] < stack[i + 1][1]
    /\ \A i \in DOMAIN stack :
          /\ stack[i][1] + 1 \in 1 .. index
          /\ isinstance(seq[stack[i][1] + 1], "Token")
          /\ IsOpener(seq[stack[i][1] + 1])
          /\ stack[i] = EntryOf(seq, stack[i][1] + 1)

\* C21: when a matching closing delimiter is resolved the sequence becomes the
\* elements before the opener, one replacement element, and the elements
\* after the closer; the scan goes on at the element right after the
\* replacement and the entry of the opener is off the stack.  In every state
\* of the scan the stack positions increase strictly and each entry indexes,
\* in the sequence as it is now, the opener whose closer it records.
C21_Splice ==
    /\ [](pc = "scan" => StackSound)
    /\ [][(AtClose /\ pc' = "scan") =>
            /\ Len(parse_interior(Container, Interior).items) = 1
            /\ seq' = SubSeq(seq, 1, OpenerAt - 1)
                         \o <<parse_interior(Container, Interior).items[1]>>
                         \o SubSeq(seq, index + 2, Len(seq))
            /\ Len(seq') = Len(seq) - (index + 1 - OpenerAt)
            /\ index' = OpenerAt
            /\ stack' = SubSeq(stack, 1, Len(stack) - 1)]_vars

\* ( [ x ] : the brackets have been resolved into one tree, the parenthesis is
\* still pending and the scan stands right after the tree
C21_Witness ==
    /\ pc = "scan"
    /\ Len(input) = 4
    /\ input[1].value = "(" /\ input[2].value = "[" /\ input[4].value = "]"
    /\ seq = <<input[1], ParseTree("brackets", <<input[3]>>)>>
    /\ index = 2
    /\ stack = <<EntryOf(input, 1)>>

\* ---- what a call of the precedence parser consumes (parser.py 155-219) ----

\* a symbol registered as an operator of some kind
IsOperator(o) ==
    IsSymbol(o) /\ o.value \in (DOMAIN prefix_ops \cup DOMAIN postfix_ops \cup DOMAIN binary_ops)

\* the elements of s that are no operators, in their order
Operands(s) == SelectSeq(s, LAMBDA e : ~IsOperator(e))

\* the elements of s a tree is built of, left to right: an element of s is
\* not looked into, a tree the parser built is
RECURSIVE Atoms(_, _), AtomsOfAll(_, _)
Atoms(o, s) ==
    IF o \in Range(s) \/ ~isinstance(o, "ParseTree") THEN <<o>>
    ELSE AtomsOfAll(o.children, s)

AtomsOfAll(os, s) ==
    IF os = <<>> THEN <<>> ELSE Atoms(Head(os), s) \o AtomsOfAll(Tail(os), s)

\* a call on s that returned the pair r: it has consumed at least one element
\* and at most all of them, its tree is built of elements it consumed, and
\* the operands among them are the operands it consumed, in their order
Consumes(s, r) ==
    /\ r.count \in 1 .. Len(s)
    /\ \A i \in DOMAIN Atoms(r.tree, s) : Atoms(r.tree, s)[i] \in Range(SubSeq(s, 1, r.count))
    /\ Operands(Atoms(r.tree, s)) = Operands(SubSeq(s, 1, r.count))

\* the calls of the precedence parser on the tails of s at every minimum
\* precedence; at minimum precedence 0 all of the tail is consumed
AllConsumed(s) ==
    \A k \in 0 .. Len(s) - 1 : \A m \in 0 .. Len(OPERATORS) :
        isinstance(_parse_operators(From(s, k), m), "Pair") =>
            /\ Consumes(From(s, k), _parse_operators(From(s, k), m))
            /\ m = 0 => _parse_operators(From(s, k), m).count = Len(s) - k

\* C22: a call of the precedence parser on a sequence that is not empty, if it
\* returns a tree, returns with it a count of consumed elements between 1 and
\* the length of the sequence; a call at minimum precedence 0, as made for
\* every bracket interior and for the final sequence, consumes all of it: no
\* element at the end is left out of the tree, and the elements that are no
\* operators are the leaves of the tree in their order
C22_Consumed ==
    [][(AtClose \/ AtEnd) =>
          /\ AllConsumed(Interior)
          /\ (AtEnd /\ isinstance(result', "list")) =>
                /\ Len(result'.items) = 1
                /\ Operands(Atoms(result'.items[1], seq)) = Operands(seq)
          /\ (AtClose /\ pc' = "scan") =>
                Operands(Atoms(seq'[OpenerAt], Interior)) = Operands(Interior)]_vars

\* x x x : both applications are in the tree, nothing is left out
C22_Witness ==
    /\ Done
    /\ Len(input) = 3
    /\ \A i \in 1 .. 3 : input[i].value = "x"
    /\ result = List(<<ParseTree("appl2",
                         <<ParseTree("appl2", <<input[1], input[2]>>), input[3]>>)>>)

====
